---- MODULE Spec2Model ----
(***************************************************************************)
(* clean-rs: the cleanup item engine (cleanup_items.rs), the legacy        *)
(* cleaner (cleaner.rs), the TUI session (tui.rs: App and run_app) and the *)
(* CLI (main.rs: run_cli_mode).                                            *)
(*                                                                         *)
(* A filesystem is a function from a fixed universe of paths (Nodes) to    *)
(* "absent", "file" or "dir".  Node 1 is the temp directory, node 2 the    *)
(* VS Code cache directory; every other node is an entry of its parent.    *)
(* Options are sequences: <<>> is None and <<x>> is Some(x).               *)
(***************************************************************************)
EXTENDS Integers, Sequences, FiniteSets, TLC

VARIABLES
    fs,             \* the filesystem: [Nodes -> {"absent", "file", "dir"}]
    locked,         \* the entries whose deletion fails (permission, in use)
    order,          \* the order in which the OS lists each directory
    cache_dir,      \* whether dirs::cache_dir() is Some on this host
    app,            \* the App value of tui.rs
    list_state,     \* the ListState selection of run_app
    now,            \* Instant::now(), in ticks of TickMs
    pc,             \* the position of run_app
    idx,            \* the position of the pass loop of scan_all / clean_selected
    direct,         \* the pass in flight was invoked on App directly
    last_key,       \* the key (or direct call) handled last, until the next draw
    pre_state,      \* app.state when that key was handled
    call            \* the library call applied last (SpecFs)

vars == <<fs, locked, order, cache_dir, app, list_state, now, pc, idx, direct,
          last_key, pre_state, call>>

-----------------------------------------------------------------------------
(* Bounds of the model *)

\* the number of paths of the universe
NumNodes == 7
\* the largest number of entries whose deletion fails
MaxLocked == 1
\* the last tick of the clock
MaxTime == 6
\* the last tick of the clock of the debouncer (SpecApp)
MaxClock == 10
\* the most calls of should_process_key on one App (SpecApp)
MaxCalls == 3

-----------------------------------------------------------------------------
(* The universe of paths *)

Nodes == 1..NumNodes

TempDir == 1
CodeDir == 2

\* the parent directory of each path (0: the path is a target root)
ParentTable == <<0, 0, 1, 1, 1, 3, 3, 2, 6, 2>>
ParentOf(n) == IF n <= Len(ParentTable) THEN ParentTable[n] ELSE n - 1

\* the length in bytes of each path when it is a regular file
SizeTable == <<0, 0, 7, 13, 1024, 2048, 100, 512, 5, 64>>
SizeOf(n) == IF n <= Len(SizeTable) THEN SizeTable[n] ELSE n

\* the file name of each path, as a sequence of characters
NameTable == <<
    <<"t", "m", "p">>,
    <<"C", "o", "d", "e">>,
    <<"t", "m", "p", "x">>,
    <<"a", ".", "t", "m", "p">>,
    <<"n", "o", "t", "e", "s", ".", "t", "x", "t">>,
    <<"c", "a", "c", "h", "e", ".", "d", "b">>,
    <<"~", "b", "a", "c", "k", "u", "p">>,
    <<"f", "i", "l", "e", "3", ".", "t", "x", "t">>,
    <<"m", "y", "t", "e", "m", "p">>,
    <<"l", "o", "g", "~">> >>
NameOf(n) == IF n <= Len(NameTable) THEN NameTable[n] ELSE <<"f">>

Kinds == {"absent", "file", "dir"}

\* an entry exists only inside an existing directory
WellFormed(f) ==
    \A n \in Nodes : (f[n] # "absent" /\ ParentOf(n) # 0) => f[ParentOf(n)] = "dir"

Trees == {f \in [Nodes -> Kinds] : WellFormed(f)}

\* the tree of the integration tests: files of 13 and 1024 bytes and a
\* subdirectory with a file of 2048 bytes
TestTree ==
    [n \in Nodes |->
        IF n \in {TempDir, CodeDir, 3} THEN "dir"
        ELSE IF n \in {4, 5, 6} THEN "file"
        ELSE "absent"]

\* the tree in which exactly the paths 1..k exist
PrefixTree(k) ==
    [n \in Nodes |->
        IF n > k THEN "absent"
        ELSE IF \E m \in Nodes : m <= k /\ ParentOf(m) = n THEN "dir"
        ELSE IF n \in {TempDir, CodeDir} THEN "dir"
        ELSE "file"]

RECURSIVE Ancestors(_)
Ancestors(n) == IF ParentOf(n) = 0 THEN {} ELSE {ParentOf(n)} \cup Ancestors(ParentOf(n))

\* the paths strictly below p
Below(p) == {n \in Nodes : p \in Ancestors(n)}

-----------------------------------------------------------------------------
(* std::fs *)

Children(p) == {n \in Nodes : ParentOf(n) = p}

RECURSIVE SortAsc(_)
SortAsc(S) ==
    IF S = {} THEN <<>>
    ELSE LET m == CHOOSE x \in S : \A y \in S : x <= y
         IN  <<m>> \o SortAsc(S \ {m})

RECURSIVE Perms(_)
\* the sequences that list every element of S once
Perms(S) ==
    IF S = {} THEN {<<>>}
    ELSE UNION {{<<x>> \o s : s \in Perms(S \ {x})} : x \in S}

\* the listings of directory p of f: its entries in any order (the paths
\* that do not exist follow, in a fixed order, and are never listed)
Listings(f, p) ==
    {s \o SortAsc({n \in Children(p) : f[n] = "absent"}) :
        s \in Perms({n \in Children(p) : f[n] # "absent"})}

RECURSIVE OrdersUpTo(_, _)
OrdersUpTo(f, k) ==
    IF k = 0 THEN {<<>>}
    ELSE {Append(o, s) : o \in OrdersUpTo(f, k - 1), s \in Listings(f, k)}

\* the orders in which the OS may list the directories of f: fs::read_dir
\* promises no order, so every permutation, directory by directory
Orders(f) == OrdersUpTo(f, NumNodes)

\* the entries of every directory by ascending path
Ascending == [p \in Nodes |-> SortAsc(Children(p))]

\* fs::read_dir(path): the entries of a directory, in the order the OS gives
read_dir(f, path) == SelectSeq(order[path], LAMBDA n : f[n] # "absent")

\* x, evaluated once, handed to F
Bind(x, F(_)) == CHOOSE y \in {F(v) : v \in {x}} : TRUE

\* fs::remove_file(path), its error discarded
remove_file(f, path) ==
    IF path \in locked THEN f ELSE [f EXCEPT ![path] = "absent"]

\* fs::remove_dir_all(path): removes the entries in order and then the
\* directory, and returns at the first removal that fails
RECURSIVE remove_dir_all(_, _)
remove_dir_all(f, path) ==
    LET es == read_dir(f, path)
        RECURSIVE loop(_, _)
        loop(i, g) ==
            IF i > Len(es) THEN [ok |-> TRUE, fs |-> g]
            ELSE IF g[es[i]] = "dir"
                 THEN Bind(remove_dir_all(g, es[i]),
                           LAMBDA r : IF r.ok THEN loop(i + 1, r.fs) ELSE r)
                 ELSE IF es[i] \in locked
                      THEN [ok |-> FALSE, fs |-> g]
                      ELSE Bind([g EXCEPT ![es[i]] = "absent"],
                                LAMBDA h : loop(i + 1, h))
    IN  Bind(loop(1, f),
             LAMBDA c :
                 IF ~c.ok THEN c
                 ELSE IF path \in locked THEN [ok |-> FALSE, fs |-> c.fs]
                 ELSE [ok |-> TRUE, fs |-> [c.fs EXCEPT ![path] = "absent"]])

-----------------------------------------------------------------------------
(* cleanup_items.rs *)

\* CleanupResult::new that starts with has_data set
CleanupResult_new_has_data ==
    [files |-> 0, directories |-> 0, size_bytes |-> 0, entries |-> 0,
     has_data |-> TRUE]

CleanupResult_new ==
    [files |-> 0, directories |-> 0, size_bytes |-> 0, entries |-> 0,
     has_data |-> FALSE]

\* str::contains
Contains(s, pat) ==
    \E i \in 0..(Len(s) - Len(pat)) :
        \A j \in 1..Len(pat) : s[i + j] = pat[j]

StartsWith(s, pat) ==
    Len(s) >= Len(pat) /\ \A j \in 1..Len(pat) : s[j] = pat[j]

EndsWith(s, pat) ==
    Len(s) >= Len(pat) /\ \A j \in 1..Len(pat) : s[Len(s) - Len(pat) + j] = pat[j]

\* is_temp that takes "tmp" anywhere in the name
is_temp_tmp_anywhere(name_str) ==
    \/ Contains(name_str, <<"t", "m", "p">>)
    \/ Contains(name_str, <<".", "t", "e", "m", "p">>)
    \/ StartsWith(name_str, <<"~">>)
    \/ EndsWith(name_str, <<"~">>)
    \/ Contains(name_str, <<"t", "e", "m", "p">>)
    \/ Contains(name_str, <<"c", "a", "c", "h", "e">>)

\* the temp file patterns of scan_temp_files and clean_temp_files
is_temp(name_str) ==
    \/ Contains(name_str, <<".", "t", "m", "p">>)
    \/ Contains(name_str, <<".", "t", "e", "m", "p">>)
    \/ StartsWith(name_str, <<"~">>)
    \/ EndsWith(name_str, <<"~">>)
    \/ Contains(name_str, <<"t", "e", "m", "p">>)
    \/ Contains(name_str, <<"c", "a", "c", "h", "e">>)

\* Accumulate that counts the subdirectory and not the directories inside it
Accumulate_own_directory_only(result, item_result, extra) ==
    [result EXCEPT
        !.files = @ + item_result.files,
        !.directories = @ + extra,
        !.size_bytes = @ + item_result.size_bytes,
        !.has_data = @ \/ item_result.has_data]

\* Accumulate that takes has_data from the entry added last
Accumulate_has_data_overwrites(result, item_result, extra) ==
    [result EXCEPT
        !.files = @ + item_result.files,
        !.directories = @ + extra + item_result.directories,
        !.size_bytes = @ + item_result.size_bytes,
        !.has_data = item_result.has_data]

\* result, with the counts of item_result added and extra directories
Accumulate(result, item_result, extra) ==
    [result EXCEPT
        !.files = @ + item_result.files,
        !.directories = @ + extra + item_result.directories,
        !.size_bytes = @ + item_result.size_bytes,
        !.has_data = @ \/ item_result.has_data]

\* result, with one file of the given length counted
CountFile(result, len) ==
    [result EXCEPT !.files = @ + 1, !.size_bytes = @ + len, !.has_data = TRUE]

RECURSIVE scan_directory(_, _)
scan_directory(f, path) ==
    IF f[path] = "absent" THEN CleanupResult_new
    ELSE IF f[path] # "dir" THEN CleanupResult_new
    ELSE
        LET es == read_dir(f, path)
            RECURSIVE loop(_, _)
            loop(i, result) ==
                IF i > Len(es) THEN result
                ELSE IF f[es[i]] = "file"
                     THEN Bind(CountFile(result, SizeOf(es[i])),
                               LAMBDA r : loop(i + 1, r))
                     ELSE Bind(Accumulate(result, scan_directory(f, es[i]), 1),
                               LAMBDA r : loop(i + 1, r))
        IN  loop(1, CleanupResult_new)

\* the fields clean_directory and clean_temp_files copy from the scan
CopyOf(scan_result) ==
    [CleanupResult_new EXCEPT
        !.files = scan_result.files,
        !.directories = scan_result.directories,
        !.size_bytes = scan_result.size_bytes,
        !.has_data = scan_result.has_data]

\* clean_directory that scans after it has deleted
clean_directory_scan_after(f, path, dry_run) ==
    IF f[path] # "dir" THEN [result |-> CleanupResult_new, fs |-> f]
    ELSE
        LET es == read_dir(f, path)
            RECURSIVE loop(_, _)
            loop(i, g) ==
                IF i > Len(es) THEN g
                ELSE IF g[es[i]] = "file"
                     THEN Bind(remove_file(g, es[i]), LAMBDA h : loop(i + 1, h))
                ELSE Bind(remove_dir_all(g, es[i]).fs, LAMBDA h : loop(i + 1, h))
        IN  Bind(IF dry_run THEN f ELSE loop(1, f),
                 LAMBDA g : [result |-> CopyOf(scan_directory(g, path)), fs |-> g])

\* the result and the filesystem left by CleanupItem::clean_directory
clean_directory(f, path, dry_run) ==
    IF f[path] = "absent" THEN [result |-> CleanupResult_new, fs |-> f]
    ELSE
        LET es == read_dir(f, path)
            RECURSIVE loop(_, _)
            loop(i, g) ==
                IF i > Len(es) THEN g
                ELSE IF g[es[i]] = "file"
                     THEN Bind(remove_file(g, es[i]), LAMBDA h : loop(i + 1, h))
                ELSE IF g[es[i]] = "dir"
                     THEN Bind(remove_dir_all(g, es[i]).fs, LAMBDA h : loop(i + 1, h))
                ELSE loop(i + 1, g)
        IN  Bind(CopyOf(scan_directory(f, path)),
                 LAMBDA result :
                     IF dry_run THEN [result |-> result, fs |-> f]
                     ELSE IF f[path] # "dir" THEN [result |-> result, fs |-> f]
                     ELSE [result |-> result, fs |-> loop(1, f)])

RECURSIVE scan_temp_files(_, _)
scan_temp_files(f, path) ==
    IF f[path] = "absent" THEN CleanupResult_new
    ELSE IF f[path] # "dir" THEN CleanupResult_new
    ELSE
        LET es == read_dir(f, path)
            RECURSIVE loop(_, _)
            loop(i, result) ==
                IF i > Len(es) THEN result
                ELSE Bind(IF is_temp(NameOf(es[i])) /\ f[es[i]] = "file"
                          THEN CountFile(result, SizeOf(es[i]))
                          ELSE result,
                          LAMBDA r1 :
                              IF f[es[i]] = "dir"
                              THEN Bind(Accumulate(r1, scan_temp_files(f, es[i]), 0),
                                        LAMBDA r2 : loop(i + 1, r2))
                              ELSE loop(i + 1, r1))
        IN  loop(1, CleanupResult_new)

\* clean_temp_files that removes every regular file, whatever its name
RECURSIVE clean_temp_files_any_name(_, _, _)
clean_temp_files_any_name(f, path, dry_run) ==
    IF f[path] = "absent" THEN [result |-> CleanupResult_new, fs |-> f]
    ELSE
        LET es == read_dir(f, path)
            RECURSIVE loop(_, _)
            loop(i, g) ==
                IF i > Len(es) THEN g
                ELSE Bind(IF g[es[i]] = "file"
                          THEN remove_file(g, es[i])
                          ELSE g,
                          LAMBDA g1 :
                              IF g1[es[i]] = "dir"
                              THEN Bind(clean_temp_files_any_name(g1, es[i], FALSE).fs,
                                        LAMBDA g2 : loop(i + 1, g2))
                              ELSE loop(i + 1, g1))
        IN  Bind(CopyOf(scan_temp_files(f, path)),
                 LAMBDA result :
                     IF dry_run THEN [result |-> result, fs |-> f]
                     ELSE IF f[path] # "dir" THEN [result |-> result, fs |-> f]
                     ELSE [result |-> result, fs |-> loop(1, f)])

\* clean_temp_files that does not descend into subdirectories
clean_temp_files_top_only(f, path, dry_run) ==
    IF f[path] # "dir" THEN [result |-> CleanupResult_new, fs |-> f]
    ELSE
        LET es == read_dir(f, path)
            RECURSIVE loop(_, _)
            loop(i, g) ==
                IF i > Len(es) THEN g
                ELSE IF is_temp(NameOf(es[i])) /\ g[es[i]] = "file"
                     THEN Bind(remove_file(g, es[i]), LAMBDA h : loop(i + 1, h))
                     ELSE loop(i + 1, g)
        IN  [result |-> CopyOf(scan_temp_files(f, path)),
             fs |-> IF dry_run THEN f ELSE loop(1, f)]

\* the result and the filesystem left by CleanupItem::clean_temp_files
RECURSIVE clean_temp_files(_, _, _)
clean_temp_files(f, path, dry_run) ==
    IF f[path] = "absent" THEN [result |-> CleanupResult_new, fs |-> f]
    ELSE
        LET es == read_dir(f, path)
            RECURSIVE loop(_, _)
            loop(i, g) ==
                IF i > Len(es) THEN g
                ELSE Bind(IF is_temp(NameOf(es[i])) /\ g[es[i]] = "file"
                          THEN remove_file(g, es[i])
                          ELSE g,
                          LAMBDA g1 :
                              IF g1[es[i]] = "dir"
                              THEN Bind(clean_temp_files(g1, es[i], FALSE).fs,
                                        LAMBDA g2 : loop(i + 1, g2))
                              ELSE loop(i + 1, g1))
        IN  Bind(CopyOf(scan_temp_files(f, path)),
                 LAMBDA result :
                     IF dry_run THEN [result |-> result, fs |-> f]
                     ELSE IF f[path] # "dir" THEN [result |-> result, fs |-> f]
                     ELSE [result |-> result, fs |-> loop(1, f)])

\* CleanupType: Directory(path), Directories(paths), TempFiles(path)
Directory(path) == [kind |-> "Directory", paths |-> <<path>>]
Directories(paths) == [kind |-> "Directories", paths |-> paths]
TempFiles(path) == [kind |-> "TempFiles", paths |-> <<path>>]

\* CleanupItem::scan
scan(f, item) ==
    IF item.cleanup_type.kind = "Directory"
    THEN scan_directory(f, item.cleanup_type.paths[1])
    ELSE IF item.cleanup_type.kind = "TempFiles"
    THEN scan_temp_files(f, item.cleanup_type.paths[1])
    ELSE
        LET paths == item.cleanup_type.paths
            RECURSIVE loop(_, _)
            loop(i, result) ==
                IF i > Len(paths) THEN result
                ELSE Bind(Accumulate(result, scan_directory(f, paths[i]), 0),
                          LAMBDA r : loop(i + 1, r))
        IN  loop(1, CleanupResult_new)

\* clean that returns at the first listed path that does not exist
clean_stops_at_missing(f, item) ==
    IF item.cleanup_type.kind = "Directory"
    THEN clean_directory(f, item.cleanup_type.paths[1], FALSE)
    ELSE IF item.cleanup_type.kind = "TempFiles"
    THEN clean_temp_files(f, item.cleanup_type.paths[1], FALSE)
    ELSE
        LET paths == item.cleanup_type.paths
            RECURSIVE loop(_, _, _)
            loop(i, result, g) ==
                IF i > Len(paths) THEN [result |-> result, fs |-> g]
                ELSE IF g[paths[i]] = "absent" THEN [result |-> result, fs |-> g]
                ELSE Bind(clean_directory(g, paths[i], FALSE),
                          LAMBDA c :
                              Bind(Accumulate(result, c.result, 0),
                                   LAMBDA r : loop(i + 1, r, c.fs)))
        IN  loop(1, CleanupResult_new, f)

\* CleanupItem::clean: the result and the filesystem it leaves
clean(f, item) ==
    IF item.cleanup_type.kind = "Directory"
    THEN clean_directory(f, item.cleanup_type.paths[1], FALSE)
    ELSE IF item.cleanup_type.kind = "TempFiles"
    THEN clean_temp_files(f, item.cleanup_type.paths[1], FALSE)
    ELSE
        LET paths == item.cleanup_type.paths
            RECURSIVE loop(_, _, _)
            loop(i, result, g) ==
                IF i > Len(paths) THEN [result |-> result, fs |-> g]
                ELSE Bind(clean_directory(g, paths[i], FALSE),
                          LAMBDA c :
                              Bind(Accumulate(result, c.result, 0),
                                   LAMBDA r : loop(i + 1, r, c.fs)))
        IN  loop(1, CleanupResult_new, f)

-----------------------------------------------------------------------------
(* cleaner.rs *)

RECURSIVE get_dir_size(_, _)
get_dir_size(f, path) ==
    IF f[path] = "dir"
    THEN LET es == read_dir(f, path)
             RECURSIVE loop(_, _)
             loop(i, size) ==
                 IF i > Len(es) THEN size
                 ELSE IF f[es[i]] = "dir"
                      THEN Bind(size + get_dir_size(f, es[i]), LAMBDA n : loop(i + 1, n))
                 ELSE IF f[es[i]] = "file" THEN loop(i + 1, size + SizeOf(es[i]))
                 ELSE loop(i + 1, size)
         IN  loop(1, 0)
    ELSE IF f[path] = "file" THEN SizeOf(path)
    ELSE 0

CleanResult_zero ==
    [ok |-> TRUE, files_deleted |-> 0, dirs_deleted |-> 0, bytes_cleaned |-> 0,
     errors |-> <<>>]

\* saturating_sub with its operands swapped
saturating_sub_swapped(a, b) == IF b >= a THEN b - a ELSE 0

saturating_sub(a, b) == IF a >= b THEN a - b ELSE 0

\* cleaner::clean_directory: Ok(CleanResult) or Err, and the filesystem it
\* leaves; errors holds the entries whose deletion failed
cleaner_clean_directory(f, path, dry_run) ==
    IF f[path] = "absent" THEN [result |-> CleanResult_zero, fs |-> f]
    ELSE IF f[path] # "dir"
    THEN [result |-> [CleanResult_zero EXCEPT !.ok = FALSE], fs |-> f]
    ELSE
        LET es == read_dir(f, path)
            RECURSIVE loop(_, _, _)
            loop(i, result, g) ==
                IF i > Len(es) THEN [result |-> result, fs |-> g]
                ELSE IF g[es[i]] = "file"
                THEN IF dry_run
                     THEN loop(i + 1, [result EXCEPT !.files_deleted = @ + 1], g)
                     ELSE IF es[i] \notin locked
                          THEN Bind([g EXCEPT ![es[i]] = "absent"],
                                    LAMBDA h :
                                        loop(i + 1,
                                             [result EXCEPT !.files_deleted = @ + 1], h))
                          ELSE loop(i + 1,
                                    [result EXCEPT !.errors = Append(@, es[i])], g)
                ELSE IF g[es[i]] = "dir"
                THEN IF dry_run
                     THEN loop(i + 1, [result EXCEPT !.dirs_deleted = @ + 1], g)
                     ELSE Bind(remove_dir_all(g, es[i]),
                               LAMBDA r :
                                   IF r.ok
                                   THEN loop(i + 1,
                                             [result EXCEPT !.dirs_deleted = @ + 1],
                                             r.fs)
                                   ELSE loop(i + 1,
                                             [result EXCEPT !.errors = Append(@, es[i])],
                                             r.fs))
                ELSE loop(i + 1, result, g)
        IN  Bind(loop(1, CleanResult_zero, f),
                 LAMBDA done :
                     [result |-> [done.result EXCEPT
                                     !.bytes_cleaned =
                                         saturating_sub(get_dir_size(f, path),
                                                        get_dir_size(done.fs, path))],
                      fs |-> done.fs])

-----------------------------------------------------------------------------
(* cleanup_items.rs: the catalog of this platform (not Windows) *)

CleanupItem(id, cleanup_type, enabled) ==
    [id |-> id, cleanup_type |-> cleanup_type, enabled |-> enabled]

get_all_cleanup_items(cache) ==
    <<CleanupItem("temp_files", Directory(TempDir), TRUE)>>
    \o (IF cache THEN <<CleanupItem("vscode_cache", Directory(CodeDir), FALSE)>>
        ELSE <<>>)
    \o <<CleanupItem("log_files", TempFiles(TempDir), TRUE)>>

-----------------------------------------------------------------------------
(* main.rs: the CLI *)

\* the loop of clean_with_items from item i on: the totals it returns and the
\* filesystem it leaves
RECURSIVE clean_with_items_from(_, _, _, _, _, _)
clean_with_items_from(f, items, dry_run, i, total_bytes, total_files) ==
    IF i > Len(items)
    THEN [total_bytes |-> total_bytes, total_files |-> total_files, fs |-> f]
    ELSE IF ~items[i].enabled
    THEN clean_with_items_from(f, items, dry_run, i + 1, total_bytes, total_files)
    ELSE Bind(scan(f, items[i]),
              LAMBDA result :
                  IF result.has_data
                  THEN Bind(IF dry_run THEN f ELSE clean(f, items[i]).fs,
                            LAMBDA g :
                                clean_with_items_from(g, items, dry_run, i + 1,
                                                      total_bytes + result.size_bytes,
                                                      total_files + result.files))
                  ELSE clean_with_items_from(f, items, dry_run, i + 1,
                                             total_bytes, total_files))

clean_with_items(f, items, dry_run) ==
    clean_with_items_from(f, items, dry_run, 1, 0, 0)

\* clean_custom_directory: Ok(size_bytes) and the filesystem it leaves
clean_custom_directory(f, path, dry_run) ==
    LET item == CleanupItem("legacy_custom", Directory(path), TRUE)
    IN  Bind(scan(f, item),
             LAMBDA result :
                 [bytes |-> result.size_bytes,
                  fs |-> IF ~dry_run /\ result.has_data THEN clean(f, item).fs ELSE f])

\* clean_temp that cleans whatever dry_run says
clean_temp_real(f, dry_run) ==
    LET item == CleanupItem("legacy_temp", Directory(TempDir), TRUE)
    IN  Bind(scan(f, item),
             LAMBDA result :
                 [bytes |-> result.size_bytes,
                  fs |-> IF result.has_data THEN clean(f, item).fs ELSE f])

\* clean_temp: Ok(size_bytes) and the filesystem it leaves
clean_temp(f, dry_run) ==
    LET item == CleanupItem("legacy_temp", Directory(TempDir), TRUE)
    IN  Bind(scan(f, item),
             LAMBDA result :
                 [bytes |-> result.size_bytes,
                  fs |-> IF ~dry_run /\ result.has_data THEN clean(f, item).fs ELSE f])

-----------------------------------------------------------------------------
(* tui.rs: App *)

KEY_COOLDOWN_MS == 150
PollTimeoutMs == 100
\* the length of one tick of the clock, in milliseconds: the instants the
\* model tells apart are 25 ms apart, so that a key may arrive 0, 25, 50 or
\* 75 ms into a poll and two keys read without a time-out between them may
\* be a cooldown apart
TickMs == PollTimeoutMs \div 4

None == <<>>
Some(x) == <<x>>

Message(kind, bytes) == [kind |-> kind, bytes |-> bytes]

\* App::new
App_new(cache) ==
    LET cleanup_items == get_all_cleanup_items(cache)
    IN  [cleanup_items |-> cleanup_items,
         scan_results |-> [i \in 1..Len(cleanup_items) |-> None],
         clean_results |-> [i \in 1..Len(cleanup_items) |-> None],
         selected_index |-> 0,
         state |-> "Initial",
         status_message |-> Message("help", 0),
         is_scanning |-> FALSE,
         is_cleaning |-> FALSE,
         last_key_event_time |-> None]

\* should_process_key that records the time of a rejected call too
should_process_key_always_records(a, t) ==
    IF a.last_key_event_time # None
    THEN [ok |-> (t - a.last_key_event_time[1]) * TickMs >= KEY_COOLDOWN_MS,
          app |-> [a EXCEPT !.last_key_event_time = Some(t)]]
    ELSE [ok |-> TRUE, app |-> [a EXCEPT !.last_key_event_time = Some(t)]]

\* App::should_process_key at time t: the answer and the App it leaves
should_process_key(a, t) ==
    IF a.last_key_event_time # None
    THEN IF (t - a.last_key_event_time[1]) * TickMs >= KEY_COOLDOWN_MS
         THEN [ok |-> TRUE, app |-> [a EXCEPT !.last_key_event_time = Some(t)]]
         ELSE [ok |-> FALSE, app |-> a]
    ELSE [ok |-> TRUE, app |-> [a EXCEPT !.last_key_event_time = Some(t)]]

toggle_selection(a) ==
    IF a.selected_index < Len(a.cleanup_items)
    THEN [a EXCEPT !.cleanup_items[a.selected_index + 1].enabled = ~@]
    ELSE a

select_all(a) ==
    [a EXCEPT !.cleanup_items =
        [i \in 1..Len(a.cleanup_items) |-> [a.cleanup_items[i] EXCEPT !.enabled = TRUE]]]

\* deselect_all that stops before the last target
deselect_all_but_last(a) ==
    [a EXCEPT !.cleanup_items =
        [i \in 1..Len(a.cleanup_items) |->
            [a.cleanup_items[i] EXCEPT
                !.enabled = IF i = Len(a.cleanup_items) THEN @ ELSE FALSE]]]

deselect_all(a) ==
    [a EXCEPT !.cleanup_items =
        [i \in 1..Len(a.cleanup_items) |-> [a.cleanup_items[i] EXCEPT !.enabled = FALSE]]]

invert_selection(a) ==
    [a EXCEPT !.cleanup_items =
        [i \in 1..Len(a.cleanup_items) |-> [a.cleanup_items[i] EXCEPT !.enabled = ~@]]]

\* next that steps forward without the modulo
next_no_wrap(a) ==
    IF Len(a.cleanup_items) = 0 THEN a
    ELSE [a EXCEPT !.selected_index = a.selected_index + 1]

next(a) ==
    IF Len(a.cleanup_items) = 0 THEN a
    ELSE [a EXCEPT !.selected_index = (a.selected_index + 1) % Len(a.cleanup_items)]

\* previous that steps back without looking for the first index
previous_no_wrap(a) ==
    IF Len(a.cleanup_items) = 0 THEN a
    ELSE [a EXCEPT !.selected_index = a.selected_index - 1]

previous(a) ==
    IF Len(a.cleanup_items) = 0 THEN a
    ELSE [a EXCEPT !.selected_index =
             IF a.selected_index = 0 THEN Len(a.cleanup_items) - 1
             ELSE a.selected_index - 1]

\* App::scan_all, before its loop
scan_all_begin(a) ==
    [a EXCEPT !.state = "Scanning", !.is_scanning = TRUE,
              !.status_message = Message("scanning", 0)]

\* App::scan_all, one turn of its loop, at index i (from 0)
scan_all_step(a, f, i) ==
    IF a.cleanup_items[i + 1].enabled
    THEN [a EXCEPT !.scan_results[i + 1] = Some(scan(f, a.cleanup_items[i + 1]))]
    ELSE a

\* scan_all that leaves is_scanning set
scan_all_end_keeps_flag(a) ==
    [a EXCEPT !.state = "ScanningDone",
              !.status_message = Message("scan_done", 0)]

\* scan_all that clears is_scanning and leaves the phase at Scanning
scan_all_end_keeps_phase(a) ==
    [a EXCEPT !.is_scanning = FALSE,
              !.status_message = Message("scan_done", 0)]

\* App::scan_all, after its loop
scan_all_end(a) ==
    [a EXCEPT !.state = "ScanningDone", !.is_scanning = FALSE,
              !.status_message = Message("scan_done", 0)]

\* clean_selected that reports CleaningDone at once
clean_selected_begin_skip(a) ==
    [a EXCEPT !.state = "CleaningDone", !.is_cleaning = TRUE,
              !.status_message = Message("cleaning", 0)]

\* App::clean_selected, before its loop
clean_selected_begin(a) ==
    [a EXCEPT !.state = "Cleaning", !.is_cleaning = TRUE,
              !.status_message = Message("cleaning", 0)]

\* clean_selected that does not look at enabled
clean_selected_step_all(a, f, i) ==
    [app |-> [a EXCEPT !.clean_results[i + 1] =
                           Some(clean(f, a.cleanup_items[i + 1]).result)],
     fs |-> clean(f, a.cleanup_items[i + 1]).fs]

\* App::clean_selected, one turn of its loop, at index i (from 0): the App
\* and the filesystem it leaves
clean_selected_step(a, f, i) ==
    IF a.cleanup_items[i + 1].enabled
    THEN LET c == clean(f, a.cleanup_items[i + 1])
         IN  [app |-> [a EXCEPT !.clean_results[i + 1] = Some(c.result)],
              fs |-> c.fs]
    ELSE [app |-> a, fs |-> f]

RECURSIVE SumOver(_, _, _)
\* the sum of field(r) over the populated slots of results, from slot i on
SumOver(results, field, i) ==
    IF i > Len(results) THEN 0
    ELSE (IF results[i] # None THEN results[i][1][field] ELSE 0)
         + SumOver(results, field, i + 1)

\* App::clean_selected, after its loop
clean_selected_end(a) ==
    [a EXCEPT !.state = "CleaningDone", !.is_cleaning = FALSE,
              !.status_message =
                  Message("clean_done", SumOver(a.clean_results, "size_bytes", 1))]

\* get_total_files that adds the slots of both sequences
get_total_files_both(a, use_clean_results) ==
    SumOver(a.clean_results, "files", 1) + SumOver(a.scan_results, "files", 1)

\* App::get_total_size, in megabytes: the fraction num / den
get_total_size(a, use_clean_results) ==
    [num |-> SumOver(IF use_clean_results THEN a.clean_results ELSE a.scan_results,
                     "size_bytes", 1),
     den |-> 1024 * 1024]

\* App::get_total_files
get_total_files(a, use_clean_results) ==
    SumOver(IF use_clean_results THEN a.clean_results ELSE a.scan_results,
            "files", 1)

\* ui: what a frame shows of the results, in its header and its status bar
ui(a) ==
    [header |->
        IF a.state = "CleaningDone"
        THEN [kind |-> "clean_done", size |-> get_total_size(a, TRUE),
              files |-> get_total_files(a, TRUE)]
        ELSE IF a.state = "ScanningDone"
        THEN [kind |-> "scan_done", size |-> get_total_size(a, FALSE),
              files |-> get_total_files(a, FALSE)]
        ELSE IF a.is_scanning THEN [kind |-> "scanning"]
        ELSE IF a.is_cleaning THEN [kind |-> "cleaning"]
        ELSE [kind |-> "welcome"],
     status |-> a.status_message]

-----------------------------------------------------------------------------
(* tui.rs: run_app, one action per step of its loop *)

\* the handlers that take the cooldown: Space, Up / k, Down / j
on_space(a, t) ==
    IF ~a.is_scanning /\ ~a.is_cleaning
    THEN LET r == should_process_key(a, t)
         IN  IF r.ok THEN toggle_selection(r.app) ELSE r.app
    ELSE a

on_up(a, ls, t) ==
    IF ~a.is_scanning /\ ~a.is_cleaning
    THEN LET r == should_process_key(a, t)
         IN  IF r.ok
             THEN [app |-> previous(r.app),
                   list_state |-> Some(previous(r.app).selected_index)]
             ELSE [app |-> r.app, list_state |-> ls]
    ELSE [app |-> a, list_state |-> ls]

on_down(a, ls, t) ==
    IF ~a.is_scanning /\ ~a.is_cleaning
    THEN LET r == should_process_key(a, t)
         IN  IF r.ok
             THEN [app |-> next(r.app),
                   list_state |-> Some(next(r.app).selected_index)]
             ELSE [app |-> r.app, list_state |-> ls]
    ELSE [app |-> a, list_state |-> ls]

\* the batch selection handlers: a / d / i
\* the a handler without its check of is_scanning and is_cleaning
on_select_all_unguarded(a) == select_all(a)

on_select_all(a) == IF ~a.is_scanning /\ ~a.is_cleaning THEN select_all(a) ELSE a
on_deselect_all(a) == IF ~a.is_scanning /\ ~a.is_cleaning THEN deselect_all(a) ELSE a
on_invert(a) == IF ~a.is_scanning /\ ~a.is_cleaning THEN invert_selection(a) ELSE a

\* Enter without its phase check
enter_guard_always(a) == TRUE

\* the condition under which Enter runs scan_all
enter_guard(a) == a.state = "Initial" \/ a.state = "ScanningDone"

\* c without its phase check
clean_guard_always(a) == TRUE

\* the condition under which c runs clean_selected
clean_guard(a) == a.state = "ScanningDone"

\* a c handler that changes the message and does not build a new App
reset_after_clean_message_only(cache) ==
    [app EXCEPT !.status_message = Message("reset_done", 0)]

\* the App left by the reset that follows clean_selected in the c handler
reset_after_clean(cache) ==
    [App_new(cache) EXCEPT !.status_message = Message("reset_done", 0)]

\* the CLI not started: no flag given, nothing cleaned, nothing shown
NoCli ==
    [temp |-> FALSE, recycle |-> FALSE, directory |-> None, dry_run |-> FALSE,
     total_bytes |-> 0, has_error |-> FALSE, log |-> <<>>, exit_code |-> None]

NoCall ==
    [op |-> "none", item |-> CleanupItem("none", Directories(<<>>), FALSE),
     path |-> 0, pre |-> [n \in Nodes |-> "absent"],
     result |-> CleanupResult_new, cresult |-> CleanResult_zero, size |-> 0,
     files |-> 0, app |-> None, before |-> "none", answer |-> FALSE,
     trace |-> <<>>, second |-> CleanupResult_new, cli |-> NoCli]

\* the entries of f whose deletion may fail
LockSets(f) ==
    {L \in SUBSET {n \in Nodes : f[n] # "absent"} : Cardinality(L) <= MaxLocked}

\* run_app starts on a host where nothing exists, or the tree of the tests, or
\* every path, and where at most the last path cannot be deleted; the host
\* of the tests has a cache directory or none, the others none; the order
\* of the listings is chosen when a pass calls scan() or clean()
Init ==
    /\ fs \in {PrefixTree(k) : k \in {0, NumNodes}} \cup {TestTree}
    /\ locked \in {L \in LockSets(fs) : L \subseteq {NumNodes}}
    /\ order = Ascending
    /\ cache_dir \in IF fs = TestTree THEN BOOLEAN ELSE {FALSE}
    /\ app = App_new(cache_dir)
    /\ list_state = Some(0)
    /\ now = 0
    /\ pc = "draw"
    /\ idx = 0
    /\ direct = FALSE
    /\ last_key = "none"
    /\ pre_state = "none"
    /\ call = NoCall

env == <<locked, order, cache_dir, call>>

\* what a key event leaves alone whatever the key
host == <<locked, cache_dir, call>>

\* the orders the OS may list in while turn i (from 0) of a pass over the
\* targets of a runs on f: any, when the turn calls scan() or clean()
ListingsFor(a, f, i) ==
    IF i < Len(a.cleanup_items) /\ a.cleanup_items[i + 1].enabled
    THEN Orders(f)
    ELSE {Ascending}

\* terminal.draw, with the time the handler before it (a pass included) and
\* the drawing took: no bound on it is in the code
Draw ==
    /\ pc = "draw"
    /\ pc' = "poll"
    /\ now' \in now..MaxTime
    /\ last_key' = "none"
    /\ pre_state' = "none"
    /\ UNCHANGED <<fs, app, list_state, idx, direct, env>>

\* event::poll returns false after its timeout
PollTimeout ==
    /\ pc = "poll"
    /\ now + (PollTimeoutMs \div TickMs) <= MaxTime
    /\ now' = now + (PollTimeoutMs \div TickMs)
    /\ pc' = "draw"
    /\ UNCHANGED <<fs, app, list_state, idx, direct, last_key, pre_state, env>>

\* event::read returns key k, dt ticks after the poll began
Read(k, dt) ==
    /\ pc = "poll"
    /\ now + dt <= MaxTime
    /\ now' = now + dt
    /\ last_key' = k
    /\ pre_state' = app.state
    /\ UNCHANGED host

Waits == 0..((PollTimeoutMs \div TickMs) - 1)

KeyQuit ==
    \E dt \in Waits :
        /\ Read("q", dt)
        /\ pc' = "exit"
        /\ UNCHANGED <<fs, order, app, list_state, idx, direct>>

KeySpace ==
    \E dt \in Waits :
        /\ Read("space", dt)
        /\ app' = on_space(app, now + dt)
        /\ pc' = "draw"
        /\ UNCHANGED <<fs, order, list_state, idx, direct>>

KeyUp ==
    \E dt \in Waits :
        /\ Read("up", dt)
        /\ app' = on_up(app, list_state, now + dt).app
        /\ list_state' = on_up(app, list_state, now + dt).list_state
        /\ pc' = "draw"
        /\ UNCHANGED <<fs, order, idx, direct>>

KeyDown ==
    \E dt \in Waits :
        /\ Read("down", dt)
        /\ app' = on_down(app, list_state, now + dt).app
        /\ list_state' = on_down(app, list_state, now + dt).list_state
        /\ pc' = "draw"
        /\ UNCHANGED <<fs, order, idx, direct>>

KeyEnter ==
    \E dt \in Waits :
        /\ Read("enter", dt)
        /\ IF enter_guard(app)
           THEN /\ app' = scan_all_begin(app)
                /\ pc' = "scan"
                /\ idx' = 0
                /\ order' \in ListingsFor(app, fs, 0)
           ELSE /\ pc' = "draw"
                /\ UNCHANGED <<app, idx, order>>
        /\ UNCHANGED <<fs, list_state, direct>>

ScanStep ==
    /\ pc = "scan"
    /\ idx < Len(app.cleanup_items)
    /\ app' = scan_all_step(app, fs, idx)
    /\ idx' = idx + 1
    /\ order' \in ListingsFor(app, fs, idx + 1)
    /\ UNCHANGED <<fs, list_state, now, pc, direct, last_key, pre_state, host>>

ScanDone ==
    /\ pc = "scan"
    /\ idx = Len(app.cleanup_items)
    /\ app' = scan_all_end(app)
    /\ pc' = "draw"
    /\ idx' = 0
    /\ direct' = FALSE
    /\ UNCHANGED <<fs, list_state, now, last_key, pre_state, env>>

KeyClean ==
    \E dt \in Waits :
        /\ Read("c", dt)
        /\ IF clean_guard(app)
           THEN /\ app' = clean_selected_begin(app)
                /\ pc' = "clean"
                /\ idx' = 0
                /\ order' \in ListingsFor(app, fs, 0)
           ELSE /\ pc' = "draw"
                /\ UNCHANGED <<app, idx, order>>
        /\ UNCHANGED <<fs, list_state, direct>>

CleanStep ==
    /\ pc = "clean"
    /\ idx < Len(app.cleanup_items)
    /\ \E r \in {clean_selected_step(app, fs, idx)} :
          /\ app' = r.app
          /\ fs' = r.fs
          /\ order' \in ListingsFor(app, r.fs, idx + 1)
    /\ idx' = idx + 1
    /\ UNCHANGED <<list_state, now, pc, direct, last_key, pre_state, host>>

CleanDone ==
    /\ pc = "clean"
    /\ idx = Len(app.cleanup_items)
    /\ app' = clean_selected_end(app)
    /\ pc' = IF direct THEN "draw" ELSE "reset"
    /\ idx' = 0
    /\ direct' = FALSE
    /\ UNCHANGED <<fs, list_state, now, last_key, pre_state, env>>

\* *app = App::new() after clean_selected, in the c handler
ResetAfterClean ==
    /\ pc = "reset"
    /\ app' = reset_after_clean(cache_dir)
    /\ pc' = "draw"
    /\ UNCHANGED <<fs, list_state, now, idx, direct, last_key, pre_state, env>>

KeyReset ==
    \E dt \in Waits :
        /\ Read("r", dt)
        /\ app' = App_new(cache_dir)
        /\ list_state' = Some(0)
        /\ pc' = "draw"
        /\ UNCHANGED <<fs, order, idx, direct>>

KeySelectAll ==
    \E dt \in Waits :
        /\ Read("a", dt)
        /\ app' = on_select_all(app)
        /\ pc' = "draw"
        /\ UNCHANGED <<fs, order, list_state, idx, direct>>

KeyDeselectAll ==
    \E dt \in Waits :
        /\ Read("d", dt)
        /\ app' = on_deselect_all(app)
        /\ pc' = "draw"
        /\ UNCHANGED <<fs, order, list_state, idx, direct>>

KeyInvert ==
    \E dt \in Waits :
        /\ Read("i", dt)
        /\ app' = on_invert(app)
        /\ pc' = "draw"
        /\ UNCHANGED <<fs, order, list_state, idx, direct>>

\* any other key: the _ arm
KeyOther ==
    \E dt \in Waits :
        /\ Read("other", dt)
        /\ pc' = "draw"
        /\ UNCHANGED <<fs, order, app, list_state, idx, direct>>

Next ==
    \/ Draw
    \/ PollTimeout
    \/ KeyQuit
    \/ KeySpace
    \/ KeyUp
    \/ KeyDown
    \/ KeyEnter
    \/ ScanStep
    \/ ScanDone
    \/ KeyClean
    \/ CleanStep
    \/ CleanDone
    \/ ResetAfterClean
    \/ KeyReset
    \/ KeySelectAll
    \/ KeyDeselectAll
    \/ KeyInvert
    \/ KeyOther

\* run_app from App::new(), over every sequence of key events
Spec == Init /\ [][Next]_vars

-----------------------------------------------------------------------------
(* App driven by any client: the phase and batch selection keys of run_app,
   and scan_all and clean_selected invoked on the App directly between two
   events, all at one instant *)

InitApi ==
    /\ fs = PrefixTree(NumNodes)
    /\ locked = {}
    /\ order = Ascending
    /\ cache_dir = TRUE
    /\ app = App_new(cache_dir)
    /\ list_state = Some(0)
    /\ now = MaxTime
    /\ pc = "draw"
    /\ idx = 0
    /\ direct = FALSE
    /\ last_key = "none"
    /\ pre_state = "none"
    /\ call = NoCall

CallScanAll ==
    /\ pc = "poll"
    /\ app' = scan_all_begin(app)
    /\ pc' = "scan"
    /\ idx' = 0
    /\ direct' = TRUE
    /\ last_key' = "scan_all"
    /\ pre_state' = app.state
    /\ order' \in ListingsFor(app, fs, 0)
    /\ UNCHANGED <<fs, list_state, now, host>>

CallCleanSelected ==
    /\ pc = "poll"
    /\ app' = clean_selected_begin(app)
    /\ pc' = "clean"
    /\ idx' = 0
    /\ direct' = TRUE
    /\ last_key' = "clean_selected"
    /\ pre_state' = app.state
    /\ order' \in ListingsFor(app, fs, 0)
    /\ UNCHANGED <<fs, list_state, now, host>>

NextApi ==
    \/ Draw
    \/ KeyEnter
    \/ ScanStep
    \/ ScanDone
    \/ KeyClean
    \/ CleanStep
    \/ CleanDone
    \/ ResetAfterClean
    \/ KeyReset
    \/ KeySelectAll
    \/ KeyDeselectAll
    \/ KeyInvert
    \/ CallScanAll
    \/ CallCleanSelected

SpecApi == InitApi /\ [][NextApi]_vars

-----------------------------------------------------------------------------
(* run_app on any of a range of trees, the clock stopped: the thread of
   run_app goes on with the step it is at (a turn of a pass loop, the end of
   a pass, the reset after a clean, the draw), while a key arrives or not *)

InitLive ==
    /\ fs \in {PrefixTree(k) : k \in 0..NumNodes} \cup {TestTree}
    /\ locked \in {L \in LockSets(fs) : L \subseteq {NumNodes}}
    /\ order = Ascending
    /\ cache_dir = TRUE
    /\ app = App_new(cache_dir)
    /\ list_state = Some(0)
    /\ now = MaxTime
    /\ pc = "draw"
    /\ idx = 0
    /\ direct = FALSE
    /\ last_key = "none"
    /\ pre_state = "none"
    /\ call = NoCall

NextLive ==
    \/ Draw
    \/ KeyQuit
    \/ KeyEnter
    \/ ScanStep
    \/ ScanDone
    \/ KeyClean
    \/ CleanStep
    \/ CleanDone
    \/ ResetAfterClean
    \/ KeyReset
    \/ KeySelectAll
    \/ KeyDeselectAll
    \/ KeyInvert

\* the part of ScanStep on run_app's position: the next turn of scan_all's loop
ScanTurn ==
    /\ pc = "scan"
    /\ idx < Len(app.cleanup_items)
    /\ idx' = idx + 1

\* the part of CleanStep on run_app's position: the next turn of
\* clean_selected's loop
CleanTurn ==
    /\ pc = "clean"
    /\ idx < Len(app.cleanup_items)
    /\ idx' = idx + 1

\* run_app is one thread: while a pass is in flight it takes the next turn of
\* the pass loop, ends the pass, resets after a clean and draws; no key event
\* is ever required to arrive.  A step of NextLive that moves idx as ScanTurn
\* (CleanTurn) says is a ScanStep (CleanStep), and the turn is possible exactly
\* when ScanStep (CleanStep) is.
SpecLive ==
    /\ InitLive
    /\ [][NextLive]_vars
    /\ WF_idx(ScanTurn)
    /\ WF_vars(ScanDone)
    /\ WF_idx(CleanTurn)
    /\ WF_vars(CleanDone)
    /\ WF_vars(ResetAfterClean)
    /\ WF_vars(Draw)

-----------------------------------------------------------------------------
(* run_app with the clock running, on the tree of the integration test, the
   times of the last two toggle or navigation keys it acted upon kept in
   call.trace *)

InitKeys ==
    /\ fs = TestTree
    /\ locked = {}
    /\ order = Ascending
    /\ cache_dir = TRUE
    /\ app = App_new(cache_dir)
    /\ list_state = Some(0)
    /\ now = 0
    /\ pc = "draw"
    /\ idx = 0
    /\ direct = FALSE
    /\ last_key = "none"
    /\ pre_state = "none"
    /\ call = NoCall

\* event::read returns key k, dt ticks after the poll began
ReadKey(k, dt) ==
    /\ pc = "poll"
    /\ now + dt <= MaxTime
    /\ now' = now + dt
    /\ last_key' = k
    /\ pre_state' = app.state

\* the trace with a key acted upon at t added, the last two kept
Acted(tr, t) ==
    IF Len(tr) < 2 THEN Append(tr, [t |-> t, ok |-> TRUE])
    ELSE <<tr[2], [t |-> t, ok |-> TRUE]>>

\* the history after a toggle or navigation key at t that took the App from
\* a to b: the key was acted upon exactly if the App changed
Noted(c, a, b, t) ==
    IF b # a THEN [c EXCEPT !.trace = Acted(@, t)] ELSE c

KeySpaceNoted ==
    \E dt \in Waits :
        /\ ReadKey("space", dt)
        /\ \E a \in {on_space(app, now + dt)} :
              /\ app' = a
              /\ call' = Noted(call, app, a, now + dt)
        /\ pc' = "draw"
        /\ UNCHANGED <<fs, list_state, idx, direct, locked, order, cache_dir>>

KeyUpNoted ==
    \E dt \in Waits :
        /\ ReadKey("up", dt)
        /\ \E r \in {on_up(app, list_state, now + dt)} :
              /\ app' = r.app
              /\ list_state' = r.list_state
              /\ call' = Noted(call, app, r.app, now + dt)
        /\ pc' = "draw"
        /\ UNCHANGED <<fs, idx, direct, locked, order, cache_dir>>

KeyDownNoted ==
    \E dt \in Waits :
        /\ ReadKey("down", dt)
        /\ \E r \in {on_down(app, list_state, now + dt)} :
              /\ app' = r.app
              /\ list_state' = r.list_state
              /\ call' = Noted(call, app, r.app, now + dt)
        /\ pc' = "draw"
        /\ UNCHANGED <<fs, idx, direct, locked, order, cache_dir>>

NextKeys ==
    \/ Draw
    \/ PollTimeout
    \/ KeyQuit
    \/ KeySpaceNoted
    \/ KeyUpNoted
    \/ KeyDownNoted
    \/ KeyEnter
    \/ ScanStep
    \/ ScanDone
    \/ KeyClean
    \/ CleanStep
    \/ CleanDone
    \/ ResetAfterClean
    \/ KeyReset

SpecKeys == InitKeys /\ [][NextKeys]_vars

-----------------------------------------------------------------------------
(* The library functions applied once to any tree *)

LibPaths == {TempDir, 3}

LibItems ==
    {CleanupItem("dir", Directory(p), TRUE) : p \in LibPaths}
    \cup {CleanupItem("temp", TempFiles(TempDir), TRUE)}
    \cup {CleanupItem("dirs", Directories(ps), TRUE) :
            ps \in {<<TempDir, CodeDir>>, <<TempDir, TempDir>>, <<3, TempDir>>}}

InitLib ==
    /\ fs \in Trees
    /\ locked \in LockSets(fs)
    /\ order \in Orders(fs)
    /\ cache_dir = TRUE
    /\ app = App_new(cache_dir)
    /\ list_state = Some(0)
    /\ now = 0
    /\ pc = "lib"
    /\ idx = 0
    /\ direct = FALSE
    /\ last_key = "none"
    /\ pre_state = "none"
    /\ call = NoCall

session == <<app, list_state, now, pc, idx, direct, last_key, pre_state>>

\* item.scan()
LibScan ==
    \E item \in LibItems :
        /\ pc = "lib" /\ call.op = "none"
        /\ call' = [call EXCEPT !.op = "scan", !.item = item, !.pre = fs,
                                !.result = scan(fs, item)]
        /\ UNCHANGED <<fs, locked, order, cache_dir, session>>

\* item.clean()
LibClean ==
    \E item \in LibItems :
        /\ pc = "lib" /\ call.op = "none"
        /\ \E r \in {clean(fs, item)} :
              /\ call' = [call EXCEPT !.op = "clean", !.item = item, !.pre = fs,
                                      !.result = r.result]
              /\ fs' = r.fs
        /\ UNCHANGED <<locked, order, cache_dir, session>>

\* cleaner::get_dir_size(path)
LibGetDirSize ==
    \E path \in LibPaths :
        /\ pc = "lib" /\ call.op = "none"
        /\ call' = [call EXCEPT !.op = "get_dir_size", !.path = path, !.pre = fs,
                                !.size = get_dir_size(fs, path)]
        /\ UNCHANGED <<fs, locked, order, cache_dir, session>>

\* cleaner::clean_directory(path, dry_run)
LibCleanDirectory ==
    \E path \in LibPaths, dry_run \in BOOLEAN :
        /\ pc = "lib" /\ call.op = "none"
        /\ \E r \in {cleaner_clean_directory(fs, path, dry_run)} :
              /\ call' = [call EXCEPT
                             !.op = IF dry_run THEN "clean_directory_dry"
                                    ELSE "clean_directory",
                             !.path = path, !.pre = fs,
                             !.cresult = r.result]
              /\ fs' = r.fs
        /\ UNCHANGED <<locked, order, cache_dir, session>>

\* the item lists the CLI hands to clean_with_items: the catalog as built, and
\* with every item enabled
CliItemLists ==
    {get_all_cleanup_items(TRUE), select_all(App_new(TRUE)).cleanup_items}

\* clean_with_items(items, dry_run)
LibCleanWithItems ==
    \E items \in CliItemLists, dry_run \in BOOLEAN :
        /\ pc = "lib" /\ call.op = "none"
        /\ \E r \in {clean_with_items(fs, items, dry_run)} :
              /\ call' = [call EXCEPT
                             !.op = IF dry_run THEN "clean_with_items_dry"
                                    ELSE "clean_with_items",
                             !.pre = fs,
                             !.size = r.total_bytes,
                             !.files = r.total_files]
              /\ fs' = r.fs
        /\ UNCHANGED <<locked, order, cache_dir, session>>

\* clean_temp(dry_run)
LibCleanTemp ==
    \E dry_run \in BOOLEAN :
        /\ pc = "lib" /\ call.op = "none"
        /\ \E r \in {clean_temp(fs, dry_run)} :
              /\ call' = [call EXCEPT
                             !.op = IF dry_run THEN "clean_temp_dry"
                                    ELSE "clean_temp",
                             !.path = TempDir, !.pre = fs,
                             !.size = r.bytes]
              /\ fs' = r.fs
        /\ UNCHANGED <<locked, order, cache_dir, session>>

\* clean_custom_directory(path, dry_run)
LibCleanCustomDirectory ==
    \E path \in LibPaths, dry_run \in BOOLEAN :
        /\ pc = "lib" /\ call.op = "none"
        /\ \E r \in {clean_custom_directory(fs, path, dry_run)} :
              /\ call' = [call EXCEPT
                             !.op = IF dry_run THEN "clean_custom_directory_dry"
                                    ELSE "clean_custom_directory",
                             !.path = path, !.pre = fs,
                             !.size = r.bytes]
              /\ fs' = r.fs
        /\ UNCHANGED <<locked, order, cache_dir, session>>

NextLib ==
    \/ LibScan
    \/ LibClean
    \/ LibGetDirSize
    \/ LibCleanDirectory
    \/ LibCleanWithItems
    \/ LibCleanTemp
    \/ LibCleanCustomDirectory

SpecFs == InitLib /\ [][NextLib]_vars

-----------------------------------------------------------------------------
(* scan() applied twice to any tree, the OS free to list a directory in
   another order the second time *)

InitScan ==
    /\ InitLib
    /\ locked = {}

\* the next fs::read_dir gives the entries in another order
LibRelist ==
    /\ pc = "lib" /\ call.op = "scan"
    /\ order' \in Orders(fs) \ {order}
    /\ call' = [call EXCEPT !.op = "relist", !.before = call.op]
    /\ UNCHANGED <<fs, locked, cache_dir, session>>

\* item.scan() again, on the tree the first scan() left
LibScanAgain ==
    /\ pc = "lib" /\ call.op \in {"scan", "relist"}
    /\ call' = [call EXCEPT !.op = "scan_again", !.before = call.op,
                            !.second = scan(fs, call.item)]
    /\ UNCHANGED <<fs, locked, order, cache_dir, session>>

NextScan ==
    \/ LibScan
    \/ LibGetDirSize
    \/ LibRelist
    \/ LibScanAgain

SpecScan == InitScan /\ [][NextScan]_vars

-----------------------------------------------------------------------------
(* main.rs: run_cli_mode, one action per block of it.  call.cli holds the
   flags of Cli and the locals total_bytes and has_error; log lists what was
   run and shown. *)

\* platform::clean_recycle_bin on this platform (not Windows)
clean_recycle_bin(dry_run) == [ok |-> FALSE, error |-> "NotSupported"]

\* the Err arm that counts every failure of the recycle bin as an error
recycle_bin_failed_counts(c, e) ==
    [c EXCEPT !.has_error = TRUE,
              !.log = Append(@, IF e = "NotSupported" THEN "recycle_info"
                                ELSE "recycle_error")]

\* the Err arm of `if let Err(e) = clean_recycle_bin(..)`
recycle_bin_failed(c, e) ==
    [c EXCEPT !.log = Append(@, IF e = "NotSupported" THEN "recycle_info"
                                ELSE "recycle_error")]

\* c after clean_recycle_bin(c.dry_run) and the handling of its result
after_recycle_bin(c) ==
    LET r == clean_recycle_bin(c.dry_run)
    IN  IF r.ok THEN c ELSE recycle_bin_failed(c, r.error)

\* c after Ok(bytes) of the cleaning step named step
after_clean(c, step, bytes) ==
    [c EXCEPT !.total_bytes = @ + bytes, !.log = Append(@, step)]

CliDirectories == {None, Some(TempDir), Some(3)}

InitCli ==
    /\ fs \in {PrefixTree(k) : k \in 0..NumNodes} \cup {TestTree}
    /\ locked \in LockSets(fs)
    /\ order \in Orders(fs)
    /\ cache_dir = TRUE
    /\ app = App_new(cache_dir)
    /\ list_state = Some(0)
    /\ now = 0
    /\ pc = "cli_temp"
    /\ idx = 0
    /\ direct = FALSE
    /\ last_key = "none"
    /\ pre_state = "none"
    /\ \E temp \in BOOLEAN, recycle \in BOOLEAN, directory \in CliDirectories,
          dry_run \in BOOLEAN :
           call = [NoCall EXCEPT
                      !.pre = fs,
                      !.cli = [NoCli EXCEPT !.temp = temp, !.recycle = recycle,
                                            !.directory = directory,
                                            !.dry_run = dry_run]]

cli_frame == <<locked, order, cache_dir, app, list_state, now, idx, direct,
               last_key, pre_state>>

\* if cli.temp { clean_temp(cli.dry_run) }
CliTemp ==
    /\ pc = "cli_temp"
    /\ pc' = "cli_directory"
    /\ IF call.cli.temp
       THEN \E r \in {clean_temp(fs, call.cli.dry_run)} :
               /\ fs' = r.fs
               /\ call' = [call EXCEPT
                              !.cli = after_clean(@, "clean_temp", r.bytes)]
       ELSE UNCHANGED <<fs, call>>
    /\ UNCHANGED cli_frame

\* if let Some(dir) = &cli.directory { clean_custom_directory(dir, cli.dry_run) }
CliDirectory ==
    /\ pc = "cli_directory"
    /\ pc' = "cli_recycle"
    /\ IF call.cli.directory # None
       THEN \E r \in {clean_custom_directory(fs, call.cli.directory[1],
                                               call.cli.dry_run)} :
               /\ fs' = r.fs
               /\ call' = [call EXCEPT
                              !.cli = after_clean(@, "clean_custom_directory",
                                                  r.bytes)]
       ELSE UNCHANGED <<fs, call>>
    /\ UNCHANGED cli_frame

\* if cli.recycle { clean_recycle_bin(cli.dry_run) }
CliRecycle ==
    /\ pc = "cli_recycle"
    /\ pc' = "cli_default"
    /\ call' = IF call.cli.recycle
               THEN [call EXCEPT !.cli = after_recycle_bin(@)]
               ELSE call
    /\ UNCHANGED <<fs, cli_frame>>

\* if no option was given: clean_temp and clean_recycle_bin
CliDefault ==
    /\ pc = "cli_default"
    /\ pc' = "cli_summary"
    /\ IF ~call.cli.temp /\ ~call.cli.recycle /\ call.cli.directory = None
       THEN \E r \in {clean_temp(fs, call.cli.dry_run)} :
               /\ fs' = r.fs
               /\ call' = [call EXCEPT
                              !.cli = after_recycle_bin(
                                          after_clean(@, "clean_temp", r.bytes))]
       ELSE UNCHANGED <<fs, call>>
    /\ UNCHANGED cli_frame

\* display_summary, then exit(1) if has_error, else "Complete!" and Ok(())
CliSummary ==
    /\ pc = "cli_summary"
    /\ pc' = "cli_done"
    /\ call' = [call EXCEPT
                   !.cli.log = IF call.cli.has_error THEN Append(@, "summary")
                               ELSE Append(Append(@, "summary"), "complete"),
                   !.cli.exit_code = IF call.cli.has_error THEN Some(1)
                                     ELSE Some(0)]
    /\ UNCHANGED <<fs, cli_frame>>

NextCli ==
    \/ CliTemp
    \/ CliDirectory
    \/ CliRecycle
    \/ CliDefault
    \/ CliSummary

SpecCli == InitCli /\ [][NextCli]_vars

-----------------------------------------------------------------------------
(* The methods of App applied to App values: the selection and navigation
   methods to any prefix of the catalog, the empty list included, with any
   enabled flags and any cursor (pc = "app"); should_process_key to a new App,
   at any times (pc = "debounce") *)

\* selected_index is an index of the target list of a
InRangeOf(a) == a.selected_index \in 0..(Len(a.cleanup_items) - 1)

AppWith(items, selected_index) ==
    [App_new(TRUE) EXCEPT
        !.cleanup_items = items,
        !.scan_results = [i \in 1..Len(items) |-> None],
        !.clean_results = [i \in 1..Len(items) |-> None],
        !.selected_index = selected_index]

ItemLists ==
    LET all == get_all_cleanup_items(TRUE)
    IN  {[i \in 1..n |-> [all[i] EXCEPT !.enabled = flags[i]]] :
            n \in 0..Len(all), flags \in [1..Len(all) -> BOOLEAN]}

Apps ==
    {AppWith(items, sel) :
        items \in ItemLists, sel \in 0..Len(get_all_cleanup_items(TRUE)) - 1}

InitApp ==
    /\ fs = TestTree
    /\ locked = {}
    /\ order = Ascending
    /\ cache_dir = TRUE
    /\ \/ pc = "app" /\ app \in {a \in Apps : a.selected_index = 0 \/ InRangeOf(a)}
       \/ pc = "debounce" /\ app = App_new(cache_dir)
    /\ list_state = Some(app.selected_index)
    /\ now = 0
    /\ idx = 0
    /\ direct = FALSE
    /\ last_key = "none"
    /\ pre_state = "none"
    /\ call = NoCall

\* a method that takes no argument and returns nothing
Method(op, after) ==
    /\ pc = "app"
    /\ app' = after
    /\ call' = [call EXCEPT !.op = op, !.before = call.op, !.app = app]
    /\ UNCHANGED <<fs, locked, order, cache_dir, list_state, now, pc, idx, direct,
                   last_key, pre_state>>

AppNext == Method("next", next(app))
AppPrevious == Method("previous", previous(app))
AppToggleSelection == Method("toggle_selection", toggle_selection(app))
AppSelectAll == Method("select_all", select_all(app))
AppDeselectAll == Method("deselect_all", deselect_all(app))
AppInvertSelection == Method("invert_selection", invert_selection(app))

\* app.should_process_key(), dt ticks after the call before it
AppShouldProcessKey ==
    \E dt \in 0..MaxClock :
        /\ pc = "debounce"
        /\ now + dt <= MaxClock
        /\ Len(call.trace) < MaxCalls
        /\ now' = now + dt
        /\ app' = should_process_key(app, now + dt).app
        /\ call' = [call EXCEPT
                       !.op = "should_process_key", !.before = call.op,
                       !.app = app,
                       !.answer = should_process_key(app, now + dt).ok,
                       !.trace = Append(@, [t |-> now + dt,
                                            ok |-> should_process_key(app, now + dt).ok])]
        /\ UNCHANGED <<fs, locked, order, cache_dir, list_state, pc, idx, direct,
                       last_key, pre_state>>

NextApp ==
    \/ AppNext
    \/ AppPrevious
    \/ AppToggleSelection
    \/ AppSelectAll
    \/ AppDeselectAll
    \/ AppInvertSelection
    \/ AppShouldProcessKey

SpecApp == InitApp /\ [][NextApp]_vars

-----------------------------------------------------------------------------
(* Claims *)

Enabled(a) == {i \in 1..Len(a.cleanup_items) : a.cleanup_items[i].enabled}
Populated(results) == {i \in 1..Len(results) : results[i] # None}

\* C1 as stated: invoking the clean operation, by the c key or on the App
\* directly, while the phase is not ScanningDone changes neither the phase,
\* nor clean_results, nor the filesystem, and starts no pass.
C1_CleanOutsideScannedIsNoOp ==
    [][(pc = "poll" /\ last_key' \in {"c", "clean_selected"}
            /\ app.state # "ScanningDone")
        => (app'.state = app.state /\ app'.clean_results = app.clean_results
                /\ fs' = fs /\ pc' = "draw")]_vars

\* C1 amended: handling the c key while the phase is not ScanningDone changes
\* nothing of the App or the filesystem and starts no pass.
C1_CleanKeyOutsideScannedIsNoOp ==
    [][(pc = "poll" /\ last_key' = "c" /\ app.state # "ScanningDone")
        => (app' = app /\ fs' = fs /\ pc' = "draw")]_vars

\* the c key was handled in phase Initial and the App is as App::new left it
C1_Witness ==
    /\ last_key = "c" /\ pre_state = "Initial" /\ pc = "draw"
    /\ app = App_new(cache_dir)
    /\ fs = PrefixTree(NumNodes)

\* C2: a target the clean pass has cleaned was scanned by a scan pass of this
\* session, so its scan_results slot is populated.
C2_CleanedOnlyIfScanned ==
    \A i \in Populated(app.clean_results) : app.scan_results[i] # None

\* C3 as stated: a scan pass, begun by the Enter key or by scan_all invoked on
\* the App directly, begins only in phase Initial or ScanningDone.
C3_ScanRunsOnlyFromIdleOrScanned ==
    [][(pc = "poll" /\ last_key' \in {"enter", "scan_all"} /\ pc' = "scan")
        => app.state \in {"Initial", "ScanningDone"}]_vars

\* C3 amended: handling the Enter key begins a scan pass when the phase is
\* Initial or ScanningDone and changes nothing in any other phase; a turn of
\* the pass overwrites the slot of an enabled target with its scan.
C3_EnterKeyScansOnlyFromIdleOrScanned ==
    [][/\ (pc = "poll" /\ last_key' = "enter")
            => IF app.state \in {"Initial", "ScanningDone"}
               THEN pc' = "scan" /\ app'.state = "Scanning" /\ fs' = fs
                    /\ app'.scan_results = app.scan_results
               ELSE app' = app /\ fs' = fs /\ pc' = "draw"
       /\ (pc = "scan" /\ pc' = "scan" /\ idx + 1 \in Enabled(app))
            => app'.scan_results[idx + 1] = Some(scan(fs, app.cleanup_items[idx + 1]))
      ]_vars

\* the Enter key was handled in phase CleaningDone and left it as it was
C3_Witness ==
    /\ last_key = "enter" /\ pre_state = "CleaningDone" /\ pc = "draw"
    /\ app.state = "CleaningDone"
    /\ Populated(app.clean_results) # {}

AllowedTransitions ==
    {<<"Initial", "Scanning">>, <<"Scanning", "ScanningDone">>,
     <<"ScanningDone", "Scanning">>, <<"ScanningDone", "Cleaning">>,
     <<"Cleaning", "CleaningDone">>}
    \cup {<<p, "Initial">> :
            p \in {"Initial", "Scanning", "ScanningDone", "Cleaning", "CleaningDone"}}

\* C4: every change of the phase in run_app is Initial to Scanning, Scanning to
\* ScanningDone, ScanningDone to Scanning, ScanningDone to Cleaning, Cleaning
\* to CleaningDone, or a reset to Initial.
C4_PhaseTransitions ==
    [][app'.state # app.state => <<app.state, app'.state>> \in AllowedTransitions]_vars

\* a clean pass begun by the c key has ended and the reset is still to come
C4_Witness ==
    /\ app.state = "CleaningDone" /\ pc = "reset"
    /\ last_key = "c" /\ pre_state = "ScanningDone"

\* C5: when a scan pass has just ended, a scan_results slot is populated
\* exactly if its target is enabled.
C5_ScanSlotsAreTheEnabledTargets ==
    (pc = "draw" /\ last_key = "enter" /\ app.state = "ScanningDone")
        => Populated(app.scan_results) = Enabled(app)

\* C6: a clean_results slot becomes populated only in the turn of the clean
\* pass that processes its target, and only if the target is enabled then.
C6_CleanSlotsAreEnabledTargets ==
    [][\A i \in Populated(app'.clean_results) :
          (i \notin Populated(app.clean_results))
            => (pc = "clean" /\ idx = i - 1 /\ i \in Enabled(app))]_vars

\* a clean pass has ended with a slot populated and the slot of a disabled
\* target still None
C6_Witness ==
    /\ pc = "reset"
    /\ Populated(app.clean_results) # {}
    /\ \E j \in 1..Len(app.cleanup_items) :
          j \notin Enabled(app) /\ app.clean_results[j] = None

\* no listed path is, or is inside, another listed path
NoOverlap(item) ==
    LET paths == item.cleanup_type.paths
    IN  \A i, j \in 1..Len(paths) :
            i # j => (paths[i] # paths[j] /\ paths[i] \notin Ancestors(paths[j]))

\* C7 as stated: clean() of any target returns the result scan() gives on the
\* tree as it was before the call.
C7_CleanReturnsPriorScan ==
    call.op = "clean" => call.result = scan(call.pre, call.item)

\* C7 amended: clean() of a target whose listed paths do not overlap returns
\* the result scan() gives on the tree as it was before the call, whether or
\* not a deletion fails.
C7_CleanReturnsPriorScanNoOverlap ==
    (call.op = "clean" /\ NoOverlap(call.item))
        => call.result = scan(call.pre, call.item)

\* clean() of two paths reported files and left an entry it could not delete
C7_Witness ==
    /\ call.op = "clean"
    /\ call.item.cleanup_type.kind = "Directories"
    /\ NoOverlap(call.item)
    /\ call.result.files > 1
    /\ fs # call.pre
    /\ \E n \in locked : fs[n] # "absent" /\ TempDir \in Ancestors(n)

\* the regular files of tree f under the paths of item
FilesUnder(f, item) ==
    {n \in Nodes : f[n] = "file"
        /\ \E i \in 1..Len(item.cleanup_type.paths) :
              item.cleanup_type.paths[i] \in Ancestors(n)}

\* the files of FilesUnder that the target covers: all of them, or for a
\* TempFiles target those with a temp name
Covered(f, item) ==
    IF item.cleanup_type.kind = "TempFiles"
    THEN {n \in FilesUnder(f, item) :
            \/ Contains(NameOf(n), <<".", "t", "m", "p">>)
            \/ Contains(NameOf(n), <<"t", "e", "m", "p">>)
            \/ Contains(NameOf(n), <<"c", "a", "c", "h", "e">>)
            \/ NameOf(n)[1] = "~"
            \/ NameOf(n)[Len(NameOf(n))] = "~"}
    ELSE FilesUnder(f, item)

ZeroCounts(r) == r.files = 0 /\ r.directories = 0 /\ r.size_bytes = 0

\* C8 as stated: after clean() with no deletion failing, a scan of the target
\* counts nothing, and clean() reported as many files as the path held.
C8_CleanEmptiesAndReportsAllFiles ==
    (call.op = "clean" /\ locked = {})
        => /\ ZeroCounts(scan(fs, call.item))
           /\ call.result.files = Cardinality(FilesUnder(call.pre, call.item))

\* C8 amended: after clean() with no deletion failing, a scan of the target
\* counts nothing, and clean() reported as many files as the target covers:
\* every file under a Directory or Directories target, the files with a temp
\* name under a TempFiles target.
C8_CleanEmptiesAndReportsCoveredFiles ==
    (call.op = "clean" /\ locked = {})
        => /\ ZeroCounts(scan(fs, call.item))
           /\ call.result.files = Cardinality(Covered(call.pre, call.item))

\* clean() of a TempFiles target deleted a nested temp file and left a file
\* that has no temp name
C8_Witness ==
    /\ call.op = "clean" /\ locked = {}
    /\ call.item.cleanup_type.kind = "TempFiles"
    /\ \E n \in Covered(call.pre, call.item) : ParentOf(n) # TempDir /\ fs[n] = "absent"
    /\ \E n \in FilesUnder(call.pre, call.item) : fs[n] = "file"

\* the entries whose deletion fails: those that cannot be deleted and the
\* directories that hold one
Failing == locked \cup UNION {Ancestors(n) : n \in locked}

\* C9: clean() of a Directory target deletes every entry under the path other
\* than those whose deletion fails.
C9_FailureDoesNotStopTheRest ==
    (call.op = "clean" /\ call.item.cleanup_type.kind = "Directory")
        => \A n \in Below(call.item.cleanup_type.paths[1]) :
              n \notin Failing => fs[n] = "absent"

\* C10: a dry run of cleaner::clean_directory reports the files_deleted,
\* dirs_deleted and bytes_cleaned of the real clean of the same tree with no
\* deletion failing, and its bytes_cleaned is the size of the tree.
C10_DryRunReportsLikeRealClean ==
    (call.op = "clean_directory_dry" /\ call.cresult.ok /\ locked = {})
        => LET real == cleaner_clean_directory(call.pre, call.path, FALSE).result
           IN  /\ call.cresult.files_deleted = real.files_deleted
               /\ call.cresult.dirs_deleted = real.dirs_deleted
               /\ call.cresult.bytes_cleaned = real.bytes_cleaned
               /\ call.cresult.bytes_cleaned = get_dir_size(call.pre, call.path)

DryRunOps ==
    {"clean_directory_dry", "clean_with_items_dry", "clean_temp_dry",
     "clean_custom_directory_dry"}

\* C11: a dry-run clean, by cleaner::clean_directory(path, true) or by the
\* CLI's clean_with_items, clean_temp or clean_custom_directory with dry_run,
\* leaves every file and directory as it was.
C11_DryRunDeletesNothing ==
    call.op \in DryRunOps => fs = call.pre

\* a dry run of clean_temp found bytes to clean, some in a subdirectory
C11_Witness ==
    /\ call.op = "clean_temp_dry"
    /\ call.size > 0
    /\ \E n \in Nodes : fs[n] = "file" /\ ParentOf(n) # TempDir /\ TempDir \in Ancestors(n)
    /\ fs = call.pre

\* the sum of field over the populated slots in S
RECURSIVE SlotSum(_, _, _)
SlotSum(results, field, S) ==
    IF S = {} THEN 0
    ELSE LET i == CHOOSE j \in S : TRUE
         IN  results[i][1][field] + SlotSum(results, field, S \ {i})

\* C12: the totals are the sums over the populated slots of the sequence
\* asked for, scan_results or clean_results: files for get_total_files, bytes
\* over 1024 * 1024 for get_total_size; on the tree of the tests two scanned
\* targets that hold its three files between them give 3 files and 3085 bytes.
C12_TotalsAreSlotSums ==
    /\ \A use_clean_results \in BOOLEAN :
          LET results == IF use_clean_results THEN app.clean_results
                         ELSE app.scan_results
          IN  /\ get_total_files(app, use_clean_results)
                    = SlotSum(results, "files", Populated(results))
              /\ get_total_size(app, use_clean_results).num
                    = SlotSum(results, "size_bytes", Populated(results))
              /\ get_total_size(app, use_clean_results).den = 1048576
    /\ (/\ fs = TestTree /\ app.state = "ScanningDone"
        /\ \E i, j \in Enabled(app) :
              /\ Enabled(app) = {i, j} /\ Populated(app.scan_results) = {i, j}
              /\ app.cleanup_items[i].cleanup_type = Directory(TempDir)
              /\ app.cleanup_items[j].cleanup_type = Directory(CodeDir))
        => (/\ get_total_files(app, FALSE) = 3
            /\ get_total_size(app, FALSE).num = 13 + 1024 + 2048)

\* the tree of the tests has been scanned with two targets enabled, and the
\* slot of the third is None
C12_Witness ==
    /\ fs = TestTree /\ app.state = "ScanningDone" /\ pc = "draw"
    /\ Cardinality(Populated(app.scan_results)) = 2
    /\ Len(app.scan_results) = 3
    /\ get_total_files(app, FALSE) = 3
    /\ get_total_size(app, FALSE) = [num |-> 3085, den |-> 1048576]

\* the enabled flags and the cursor of an App
Selection(a) ==
    <<[i \in 1..Len(a.cleanup_items) |-> a.cleanup_items[i].enabled], a.selected_index>>

SelectionKeys == {"space", "up", "down", "a", "d", "i"}

\* C13: a selection key changes the enabled flags or selected_index only when
\* it is handled in phase Initial or ScanningDone; while the phase is Scanning
\* or Cleaning no step changes them, and each selection handler applied to the
\* App as it is then, at any time, leaves them as they are.
C13_SelectionOnlyInIdleOrScanned ==
    [][/\ (pc = "poll" /\ last_key' \in SelectionKeys
                /\ Selection(app') # Selection(app))
            => app.state \in {"Initial", "ScanningDone"}
       /\ app.state \in {"Scanning", "Cleaning"}
            => /\ Selection(app') = Selection(app)
               /\ \A dt \in 0..(KEY_COOLDOWN_MS \div TickMs) :
                     /\ Selection(on_space(app, now + dt)) = Selection(app)
                     /\ Selection(on_up(app, list_state, now + dt).app) = Selection(app)
                     /\ Selection(on_down(app, list_state, now + dt).app) = Selection(app)
               /\ Selection(on_select_all(app)) = Selection(app)
               /\ Selection(on_deselect_all(app)) = Selection(app)
               /\ Selection(on_invert(app)) = Selection(app)
      ]_vars

\* the Space key was accepted in phase ScanningDone and disabled the target
\* under the cursor
C13_Witness ==
    /\ last_key = "space" /\ pre_state = "ScanningDone" /\ pc = "draw"
    /\ app.state = "ScanningDone"
    /\ app.last_key_event_time = Some(now)
    /\ ~app.cleanup_items[app.selected_index + 1].enabled
    /\ app.scan_results[app.selected_index + 1] # None


\* C14: whenever the target list is not empty selected_index is one of its
\* indexes, and so it is in the App a reset would build from either catalog.
C14_SelectedIndexInRange ==
    /\ Len(app.cleanup_items) > 0 => InRangeOf(app)
    /\ \A cache \in BOOLEAN : InRangeOf(App_new(cache))

\* a clean pass begun with the cursor on the last target has ended in the
\* reset, which put selected_index back to 0
C14_Witness ==
    /\ last_key = "c" /\ pre_state = "ScanningDone" /\ pc = "draw"
    /\ app.state = "Initial"
    /\ list_state = Some(Len(app.cleanup_items) - 1)
    /\ app.selected_index = 0

Last(a) == Len(a.cleanup_items) - 1
Flags(a) == [i \in 1..Len(a.cleanup_items) |-> a.cleanup_items[i].enabled]

\* C15: next from the last index gives 0 and otherwise the index after,
\* previous from 0 gives the last index and otherwise the index before, next
\* then previous and previous then next give back the index they started
\* from, and on an empty list both leave the App as it is; neither changes
\* anything but selected_index.
C15_NavigationWraps ==
    [][/\ call'.op = "next"
            => /\ app' = [app EXCEPT !.selected_index = app'.selected_index]
               /\ app'.selected_index =
                     IF Len(app.cleanup_items) = 0 THEN app.selected_index
                     ELSE IF app.selected_index = Last(app) THEN 0
                     ELSE app.selected_index + 1
       /\ call'.op = "previous"
            => /\ app' = [app EXCEPT !.selected_index = app'.selected_index]
               /\ app'.selected_index =
                     IF Len(app.cleanup_items) = 0 THEN app.selected_index
                     ELSE IF app.selected_index = 0 THEN Last(app)
                     ELSE app.selected_index - 1
       /\ (\/ call.op = "next" /\ call'.op = "previous"
           \/ call.op = "previous" /\ call'.op = "next")
            => app'.selected_index = call.app.selected_index
      ]_vars

\* next from the last of three targets went to 0, and previous brought the
\* cursor back to the last
C15_Witness ==
    /\ call.before = "next" /\ call.op = "previous"
    /\ Len(app.cleanup_items) = 3
    /\ call.app.selected_index = 0
    /\ app.selected_index = Last(app)

\* C16: select_all then deselect_all leaves every target disabled, whatever
\* the flags were, and invert_selection twice gives every target the flag it
\* had; none of the three changes anything but the flags.
C16_SelectAllDeselectAllInvertTwice ==
    [][/\ (call.op = "select_all" /\ call'.op = "deselect_all")
            => /\ \A i \in DOMAIN Flags(call.app) : Flags(app)[i]
               /\ \A i \in DOMAIN Flags(app') : ~Flags(app')[i]
       /\ (call.op = "invert_selection" /\ call'.op = "invert_selection")
            => Flags(app') = Flags(call.app)
       /\ call'.op \in {"select_all", "deselect_all", "invert_selection"}
            => /\ DOMAIN Flags(app') = DOMAIN Flags(app)
               /\ app' = [app EXCEPT !.cleanup_items =
                             [i \in DOMAIN Flags(app) |->
                                 [app.cleanup_items[i] EXCEPT
                                     !.enabled = Flags(app')[i]]]]
      ]_vars

\* invert_selection has been applied twice to three targets whose flags
\* differ, and they have the flags they had
C16_Witness ==
    /\ call.before = "invert_selection" /\ call.op = "invert_selection"
    /\ Len(app.cleanup_items) = 3
    /\ Flags(app) = <<TRUE, FALSE, TRUE>>
    /\ Flags(call.app) = <<FALSE, TRUE, FALSE>>

\* the calls among the first k of trace tr that were accepted
Accepted(tr, k) == {j \in 1..k : tr[j].ok}

\* the time of the last of them, as an Option
LastAccepted(tr, k) ==
    IF Accepted(tr, k) = {} THEN None
    ELSE Some(tr[CHOOSE j \in Accepted(tr, k) : \A m \in Accepted(tr, k) : m <= j].t)

\* C17: the first call of should_process_key on an App is accepted; a later
\* call is accepted exactly if at least 150 ms have passed since the last
\* accepted call; last_key_event_time is the time of the last accepted call,
\* so a rejected call leaves it; calls at t, t + 50 ms and t + 250 ms are
\* answered true, false, true.
C17_Debouncer ==
    pc = "debounce" =>
        LET tr == call.trace
        IN  /\ \A k \in 1..Len(tr) :
                  tr[k].ok <=>
                      \/ LastAccepted(tr, k - 1) = None
                      \/ (tr[k].t - LastAccepted(tr, k - 1)[1]) * TickMs >= 150
            /\ Len(tr) > 0 => tr[1].ok
            /\ app.last_key_event_time = LastAccepted(tr, Len(tr))
            /\ (/\ Len(tr) = 3
                /\ (tr[2].t - tr[1].t) * TickMs = 50
                /\ (tr[3].t - tr[1].t) * TickMs = 250)
                => <<tr[1].ok, tr[2].ok, tr[3].ok>> = <<TRUE, FALSE, TRUE>>

\* should_process_key has been called at 0, 50 and 250 ms and has answered
\* true, false, true
C17_Witness ==
    /\ pc = "debounce"
    /\ call.trace = <<[t |-> 0, ok |-> TRUE], [t |-> 2, ok |-> FALSE],
                      [t |-> 10, ok |-> TRUE]>>
    /\ app.last_key_event_time = Some(10)

\* a is in phase Initial with no result, the cursor on the first target and
\* the targets of the catalog as built
Fresh(a) ==
    /\ a.state = "Initial"
    /\ Populated(a.scan_results) = {} /\ Populated(a.clean_results) = {}
    /\ Len(a.scan_results) = Len(a.cleanup_items)
    /\ Len(a.clean_results) = Len(a.cleanup_items)
    /\ a.selected_index = 0
    /\ a.cleanup_items = get_all_cleanup_items(cache_dir)

\* C18: when the handler of the r key, in any phase, or of the c key that ran
\* a clean pass has returned, the App is in phase Initial with every slot
\* None, selected_index 0 and the catalog as built; no event is read while
\* the phase is Scanning, Cleaning or CleaningDone.
C18_ResetLeavesFreshSession ==
    /\ (pc = "draw" /\ (last_key = "r" \/ (last_key = "c" /\ pre_state = "ScanningDone")))
            => Fresh(app)
    /\ pc = "poll" => app.state \in {"Initial", "ScanningDone"}

\* the c key ran a clean pass that deleted the files of the tests' tree, and
\* the handler has returned
C18_Witness ==
    /\ last_key = "c" /\ pre_state = "ScanningDone" /\ pc = "draw"
    /\ Fresh(app)
    /\ fs[TempDir] = "dir" /\ fs[CodeDir] = "dir"
    /\ \A n \in Below(TempDir) : fs[n] = "absent"

\* the frame on the terminal was drawn from the App as it is now: run_app
\* waits for an event only after a draw, and nothing changes the App between
ShownOnTerminal == pc = "poll"

\* C19: the clean results of a pass leave the App only after a frame has
\* shown their totals in its header or status bar, or with the status message
\* of the pass kept.
C19_CleanTotalsSurfaced ==
    [][(app.state = "CleaningDone" /\ app'.state # "CleaningDone")
        => \/ /\ ShownOnTerminal
              /\ \/ ui(app).header.kind = "clean_done"
                 \/ ui(app).status.kind = "clean_done"
           \/ app'.status_message = app.status_message]_vars

\* C20: scan() and clean() of a target none of whose paths exists return zero
\* files, directories and bytes with has_data false; cleaner::clean_directory
\* of a path that does not exist returns Ok with zero counts and no errors;
\* and each leaves the filesystem as it was.
C20_MissingPathYieldsZero ==
    /\ (/\ call.op \in {"scan", "clean"}
        /\ \A i \in 1..Len(call.item.cleanup_type.paths) :
              call.pre[call.item.cleanup_type.paths[i]] = "absent")
        => /\ ZeroCounts(call.result)
           /\ ~call.result.has_data
           /\ fs = call.pre
    /\ (/\ call.op \in {"clean_directory", "clean_directory_dry"}
        /\ call.pre[call.path] = "absent")
        => /\ call.cresult.ok
           /\ call.cresult.files_deleted = 0 /\ call.cresult.dirs_deleted = 0
           /\ call.cresult.bytes_cleaned = 0 /\ call.cresult.errors = <<>>
           /\ fs = call.pre

\* clean() of a directory that does not exist, next to files that do
C20_Witness ==
    /\ call.op = "clean"
    /\ call.item.cleanup_type = Directory(3)
    /\ call.pre[3] = "absent"
    /\ \E n \in Children(TempDir) : call.pre[n] = "file"
    /\ fs = call.pre
    /\ ZeroCounts(call.result) /\ ~call.result.has_data

\* C21: every result of CleanupItem::scan() or clean() has has_data exactly
\* when files + directories > 0; a directory that holds only empty
\* subdirectories yields has_data.
C21_HasDataIffAnyEntry ==
    call.op \in {"scan", "clean"}
        => (call.result.has_data
              <=> call.result.files + call.result.directories > 0)

\* the regular files and the directories of tree f below path p
TreeFiles(f, p) == {n \in Below(p) : f[n] = "file"}
TreeDirs(f, p) == {n \in Below(p) : f[n] = "dir"}

\* the sum of the lengths of the files in S
RECURSIVE SumSizes(_)
SumSizes(S) ==
    IF S = {} THEN 0
    ELSE LET n == CHOOSE x \in S : TRUE
         IN  SizeOf(n) + SumSizes(S \ {n})

\* C22: for every directory tree, of any depth, the scan of a Directory target
\* returns the sum of the lengths of all regular files below the path, the
\* number of those files and the number of directories below the path, and
\* get_dir_size returns the same sum; the tree of the tests measures 3085.
C22_AggregateCountsWholeTree ==
    /\ (/\ call.op = "scan"
        /\ call.item.cleanup_type.kind = "Directory"
        /\ call.pre[call.item.cleanup_type.paths[1]] = "dir")
        => LET p == call.item.cleanup_type.paths[1]
           IN  /\ call.result.size_bytes = SumSizes(TreeFiles(call.pre, p))
               /\ call.result.files = Cardinality(TreeFiles(call.pre, p))
               /\ call.result.directories = Cardinality(TreeDirs(call.pre, p))
               /\ get_dir_size(call.pre, p) = call.result.size_bytes
    /\ (call.op = "get_dir_size" /\ call.pre[call.path] = "dir")
        => call.size = SumSizes(TreeFiles(call.pre, call.path))
    /\ (call.op = "get_dir_size" /\ call.pre = TestTree /\ call.path = TempDir)
        => call.size = 13 + 1024 + 2048

\* the scan of the temp directory counted a file and a directory two levels
\* down
C22_Witness ==
    /\ call.op = "scan"
    /\ call.item.cleanup_type = Directory(TempDir)
    /\ call.pre[3] = "dir" /\ call.pre[6] = "dir" /\ call.pre[7] = "file"
    /\ call.pre[4] = "file" /\ call.pre[5] = "absent"
    /\ call.result.files = 2
    /\ call.result.directories = 2
    /\ call.result.size_bytes = 113

\* the files below p whose name the predicate Match accepts
Matching(f, p, Match(_)) == {n \in TreeFiles(f, p) : Match(NameOf(n))}

\* the names C23 as stated counts: "tmp", "temp" or "cache" anywhere, or "~"
\* first or last
StatedTempName(name) ==
    \/ Contains(name, <<"t", "m", "p">>)
    \/ Contains(name, <<"t", "e", "m", "p">>)
    \/ Contains(name, <<"c", "a", "c", "h", "e">>)
    \/ (Len(name) > 0 /\ name[1] = "~")
    \/ (Len(name) > 0 /\ name[Len(name)] = "~")

\* the names the amended C23 counts: ".tmp", "temp" or "cache" anywhere, or
\* "~" first or last
DottedTempName(name) ==
    \/ Contains(name, <<".", "t", "m", "p">>)
    \/ Contains(name, <<"t", "e", "m", "p">>)
    \/ Contains(name, <<"c", "a", "c", "h", "e">>)
    \/ (Len(name) > 0 /\ name[1] = "~")
    \/ (Len(name) > 0 /\ name[Len(name)] = "~")

\* C23 as stated: a TempFiles scan counts a regular file, at any depth under
\* the path, exactly when its name contains "tmp", "temp" or "cache" or begins
\* or ends with "~".
C23_TempScanCountsStatedNames ==
    (call.op = "scan" /\ call.item.cleanup_type.kind = "TempFiles")
        => LET p == call.item.cleanup_type.paths[1]
           IN  /\ call.result.files
                     = Cardinality(Matching(call.pre, p, StatedTempName))
               /\ call.result.size_bytes
                     = SumSizes(Matching(call.pre, p, StatedTempName))

\* C23 amended: a TempFiles scan counts a regular file, at any depth under the
\* path, exactly when its name contains ".tmp", "temp" or "cache" or begins or
\* ends with "~"; it counts no directory and descends into every subdirectory
\* whatever its name; of a.tmp, notes.txt, ~backup and cache.db it counts
\* a.tmp, ~backup and cache.db.
C23_TempScanCountsDottedNames ==
    /\ (call.op = "scan" /\ call.item.cleanup_type.kind = "TempFiles")
        => LET p == call.item.cleanup_type.paths[1]
           IN  /\ call.result.files
                     = Cardinality(Matching(call.pre, p, DottedTempName))
               /\ call.result.size_bytes
                     = SumSizes(Matching(call.pre, p, DottedTempName))
               /\ call.result.directories = 0
               /\ call.result.has_data
                     <=> Matching(call.pre, p, DottedTempName) # {}
    /\ (/\ call.op = "scan" /\ call.item.cleanup_type = TempFiles(TempDir)
        /\ {n \in Nodes : call.pre[n] = "file"} = {4, 5, 6, 7})
        => /\ NameOf(4) = <<"a", ".", "t", "m", "p">>
           /\ NameOf(5) = <<"n", "o", "t", "e", "s", ".", "t", "x", "t">>
           /\ NameOf(6) = <<"c", "a", "c", "h", "e", ".", "d", "b">>
           /\ NameOf(7) = <<"~", "b", "a", "c", "k", "u", "p">>
           /\ call.result.files = 3
           /\ call.result.size_bytes = SizeOf(4) + SizeOf(6) + SizeOf(7)

\* the scan of a.tmp and notes.txt in the path and of cache.db and ~backup in
\* a subdirectory of it counted three files
C23_Witness ==
    /\ call.op = "scan" /\ call.item.cleanup_type = TempFiles(TempDir)
    /\ {n \in Nodes : call.pre[n] = "file"} = {4, 5, 6, 7}
    /\ call.pre[3] = "dir"
    /\ call.result.files = 3
    /\ call.result.has_data

\* C24: scan() creates, deletes and modifies nothing, and a second scan() of
\* the same target on the unmodified tree returns the result of the first, in
\* whatever order the OS lists the directories each time.
C24_ScanReadOnlyIdempotent ==
    /\ call.op \in {"scan", "relist", "scan_again"} => fs = call.pre
    /\ call.op = "scan_again" => call.second = call.result

\* the second scan() read the directories in another order and counted the
\* same files and directories
C24_Witness ==
    /\ call.op = "scan_again" /\ call.before = "relist"
    /\ call.result.files >= 2 /\ call.result.directories >= 1
    /\ call.second = call.result
    /\ fs = call.pre

\* C27: when the path is a regular file, the scan of a Directory target
\* returns the length of that file with 1 file and 0 directories, and
\* get_dir_size returns the length of that file.
C27_FilePathCountsItself ==
    /\ (/\ call.op = "scan"
        /\ call.item.cleanup_type.kind = "Directory"
        /\ call.pre[call.item.cleanup_type.paths[1]] = "file")
        => /\ call.result.size_bytes = SizeOf(call.item.cleanup_type.paths[1])
           /\ call.result.files = 1
           /\ call.result.directories = 0
    /\ (call.op = "get_dir_size" /\ call.pre[call.path] = "file")
        => call.size = SizeOf(call.path)

\* what run_cli_mode has logged or shown so far
Logged(x) == \E i \in 1..Len(call.cli.log) : call.cli.log[i] = x

\* the recycle bin was asked for, by --recycle or by giving no option
RecycleAsked ==
    \/ call.cli.recycle
    \/ (~call.cli.temp /\ call.cli.directory = None)

\* C25: in CLI mode the NotSupported error of clean_recycle_bin is logged as
\* information and never sets has_error; the cleaning steps asked for and the
\* summary still run, and the process ends with status 0, not 1.
C25_NotSupportedIsInformational ==
    /\ Logged("recycle_info") => ~call.cli.has_error
    /\ ~Logged("recycle_error")
    /\ (pc \in {"cli_summary", "cli_done"} /\ RecycleAsked)
          => Logged("recycle_info")
    /\ (pc \in {"cli_temp", "cli_directory", "cli_recycle", "cli_default",
                "cli_summary"})
          => call.cli.exit_code = None
    /\ (pc = "cli_done" /\ Logged("recycle_info"))
          => /\ call.cli.exit_code = Some(0)
             /\ Len(call.cli.log) >= 3
             /\ call.cli.log[Len(call.cli.log) - 1] = "summary"
             /\ call.cli.log[Len(call.cli.log)] = "complete"
             /\ call.cli.temp => call.cli.log[1] = "clean_temp"
             /\ call.cli.directory # None => Logged("clean_custom_directory")

\* run_cli_mode --temp --directory D --recycle cleaned both directories, logged
\* the NotSupported error and ended with status 0
C25_Witness ==
    /\ pc = "cli_done"
    /\ call.cli.temp /\ call.cli.recycle /\ call.cli.directory = Some(3)
    /\ ~call.cli.dry_run
    /\ call.cli.log = <<"clean_temp", "clean_custom_directory", "recycle_info",
                        "summary", "complete">>
    /\ call.cli.exit_code = Some(0)
    /\ call.cli.total_bytes > 0
    /\ fs # call.pre

\* C26: with no deletion failing, cleaner::clean_directory(path, false) of a
\* directory removes every entry below it and nothing else, and returns the
\* number of files directly in it as files_deleted, the number of directories
\* directly in it as dirs_deleted, the size of the tree before the call as
\* bytes_cleaned and no errors; for the tree of the tests 2, 1 and 3085.
C26_RealCleanRemovesAndReports ==
    /\ (call.op = "clean_directory" /\ locked = {} /\ call.pre[call.path] = "dir")
        => /\ call.cresult.ok
           /\ \A n \in Nodes :
                 fs[n] = IF n \in Below(call.path) THEN "absent" ELSE call.pre[n]
           /\ call.cresult.files_deleted
                 = Cardinality({n \in Children(call.path) : call.pre[n] = "file"})
           /\ call.cresult.dirs_deleted
                 = Cardinality({n \in Children(call.path) : call.pre[n] = "dir"})
           /\ call.cresult.bytes_cleaned = SumSizes(TreeFiles(call.pre, call.path))
           /\ call.cresult.errors = <<>>
    /\ (/\ call.op = "clean_directory" /\ locked = {} /\ call.path = TempDir
        /\ \A n \in Below(TempDir) : call.pre[n] = TestTree[n])
        => /\ call.cresult.files_deleted = 2
           /\ call.cresult.dirs_deleted = 1
           /\ call.cresult.bytes_cleaned = 3085

\* the real clean of the tree of the tests removed two files and the
\* subdirectory with its file
C26_Witness ==
    /\ call.op = "clean_directory" /\ locked = {} /\ call.path = TempDir
    /\ \A n \in Below(TempDir) : call.pre[n] = TestTree[n]
    /\ call.cresult.files_deleted = 2
    /\ call.cresult.dirs_deleted = 1
    /\ call.cresult.bytes_cleaned = 3085
    /\ \A n \in Below(TempDir) : fs[n] = "absent"
    /\ fs[TempDir] = "dir"

\* files, directories or bytes below path p of tree f
Measure(f, p, field) ==
    IF field = "files" THEN Cardinality(TreeFiles(f, p))
    ELSE IF field = "directories" THEN Cardinality(TreeDirs(f, p))
    ELSE SumSizes(TreeFiles(f, p))

\* the sum of Measure over the listed paths from the i-th on, a path listed
\* twice counted twice
RECURSIVE PathsSum(_, _, _, _)
PathsSum(f, paths, field, i) ==
    IF i > Len(paths) THEN 0
    ELSE Measure(f, paths[i], field) + PathsSum(f, paths, field, i + 1)

\* the sum of the results of clean_directory on the listed paths from the
\* i-th on, each on the tree the paths before it left, and the tree left
RECURSIVE InTurn(_, _, _)
InTurn(f, paths, i) ==
    IF i > Len(paths) THEN [result |-> CleanupResult_new, fs |-> f]
    ELSE LET c == clean_directory(f, paths[i], FALSE)
             rest == InTurn(c.fs, paths, i + 1)
         IN  [result |->
                 [files |-> c.result.files + rest.result.files,
                  directories |-> c.result.directories + rest.result.directories,
                  size_bytes |-> c.result.size_bytes + rest.result.size_bytes,
                  entries |-> 0,
                  has_data |-> c.result.has_data \/ rest.result.has_data],
              fs |-> rest.fs]

\* the entries below any of the listed paths
BelowAny(paths) == UNION {Below(paths[i]) : i \in 1..Len(paths)}

\* C28: for a Directories target, scan() returns the sum over the listed paths
\* of the files, directories and bytes below each, with has_data the OR over
\* the paths; clean() cleans the listed paths one after another and returns
\* the sum of their results, a path that does not exist adding nothing and
\* stopping nothing; with no deletion failing nothing is left below any
\* listed path.
C28_DirectoriesSumOverPaths ==
    /\ (call.op = "scan" /\ call.item.cleanup_type.kind = "Directories")
        => LET paths == call.item.cleanup_type.paths
           IN  /\ call.result.files = PathsSum(call.pre, paths, "files", 1)
               /\ call.result.directories
                     = PathsSum(call.pre, paths, "directories", 1)
               /\ call.result.size_bytes
                     = PathsSum(call.pre, paths, "size_bytes", 1)
               /\ call.result.has_data
                     <=> \E i \in 1..Len(paths) :
                            TreeFiles(call.pre, paths[i]) # {}
    /\ (call.op = "clean" /\ call.item.cleanup_type.kind = "Directories")
        => LET paths == call.item.cleanup_type.paths
           IN  /\ \A t \in {InTurn(call.pre, paths, 1)} :
                     call.result = t.result /\ fs = t.fs
               /\ \A n \in Nodes \ BelowAny(paths) : fs[n] = call.pre[n]
               /\ locked = {}
                     => \A n \in BelowAny(paths) : fs[n] = "absent"

\* clean() of a list whose first path does not exist cleaned the second path
\* and reported its files
C28_Witness ==
    /\ call.op = "clean" /\ call.item.cleanup_type.kind = "Directories"
    /\ call.pre[call.item.cleanup_type.paths[1]] = "absent"
    /\ call.pre[call.item.cleanup_type.paths[2]] = "dir"
    /\ call.result.files >= 2 /\ call.result.has_data
    /\ \A n \in Below(call.item.cleanup_type.paths[2]) : fs[n] = "absent"

\* C29: in every state is_scanning holds exactly when the phase is Scanning
\* and is_cleaning exactly when the phase is Cleaning, never both; a pass is
\* in flight exactly while run_app is inside scan_all or clean_selected, where
\* it neither polls nor handles a key, so no pass starts before the one in
\* flight has ended.
C29_AtMostOnePassInFlight ==
    /\ app.is_scanning <=> app.state = "Scanning"
    /\ app.is_cleaning <=> app.state = "Cleaning"
    /\ ~(app.is_scanning /\ app.is_cleaning)
    /\ app.is_scanning <=> pc = "scan"
    /\ app.is_cleaning <=> pc = "clean"
    /\ (app.is_scanning \/ app.is_cleaning)
          => /\ pc \notin {"poll", "draw", "reset", "exit"}
             /\ last_key \in {"enter", "c"}
             /\ idx \in 0..Len(app.cleanup_items)

\* a second scan pass, begun from ScanningDone, is in flight and has scanned
\* its first target
C29_Witness ==
    /\ pc = "scan" /\ idx = 1
    /\ app.is_scanning /\ ~app.is_cleaning /\ app.state = "Scanning"
    /\ last_key = "enter" /\ pre_state = "ScanningDone"

\* C30: when a clean pass ends whose targets are those the scan pass before it
\* scanned, the tree not changed in between, the totals of files and of bytes
\* over clean_results are the totals over scan_results.
C30_CleanTotalsEqualScanTotals ==
    (/\ app.state = "CleaningDone"
     /\ Populated(app.scan_results) = Enabled(app)
     /\ Populated(app.clean_results) = Enabled(app))
        => /\ get_total_files(app, TRUE) = get_total_files(app, FALSE)
           /\ get_total_size(app, TRUE) = get_total_size(app, FALSE)

\* C31: when run_app has handled a key event, the reset key and the clean key
\* with its automatic reset included, the row the ListState highlights is
\* app.selected_index, the row toggle_selection acts on.
C31_HighlightIsSelectedIndex ==
    (pc = "draw" /\ last_key # "none") => list_state = Some(app.selected_index)

\* C32: on every tree of the model (finite, without cycles) a scan pass that
\* has started reaches ScanningDone and run_app is back at event::poll; a
\* clean pass that has started reaches CleaningDone, then Initial, and run_app
\* is back at event::poll: the phase never stays Scanning or Cleaning.
C32_PassesRunToCompletion ==
    /\ (app.state = "Scanning") ~> (app.state = "ScanningDone" /\ pc = "poll")
    /\ (app.state = "Cleaning") ~> (app.state = "CleaningDone")
    /\ (app.state = "CleaningDone") ~> (app.state = "Initial" /\ pc = "poll")
    /\ (pc \in {"scan", "clean", "reset", "draw"}) ~> (pc = "poll")

\* a clean pass begun by the c key has deleted a.tmp, has ended and has been
\* followed by the reset
C32_Witness ==
    /\ pc = "draw" /\ last_key = "c" /\ pre_state = "ScanningDone"
    /\ app.state = "Initial"
    /\ fs[TempDir] = "dir" /\ fs[4] = "absent"
    /\ \A i \in 1..Len(app.clean_results) : app.clean_results[i] = None


RECURSIVE CleanPassFs(_, _, _)
\* the filesystem App::clean_selected leaves, from turn i (from 0) on
CleanPassFs(a, f, i) ==
    IF i >= Len(a.cleanup_items) THEN f
    ELSE Bind(clean_selected_step(a, f, i).fs,
              LAMBDA g : CleanPassFs(a, g, i + 1))

\* the regular files of f that are gone in g
DeletedFiles(f, g) == {n \in DOMAIN f : f[n] = "file" /\ g[n] = "absent"}

\* C33: after a scan pass, the targets scanned being the targets enabled and
\* no file locked, get_total_files(false) is the number of distinct regular
\* files a clean pass with that selection would delete.
C33_ScanTotalCountsEachFileOnce ==
    (/\ pc = "draw" /\ app.state = "ScanningDone"
     /\ Populated(app.scan_results) = Enabled(app)
     /\ locked = {})
        => \A g \in {CleanPassFs(clean_selected_begin(app), fs, 0)} :
               get_total_files(app, FALSE) = Cardinality(DeletedFiles(fs, g))


\* the regular files under p whose name is a transient name
TempNamed(f, p) == Matching(f, p, DottedTempName)

\* C34: clean() of a TempFiles target changes nothing but regular files under
\* the path whose name is a transient name: every other file and every
\* directory, at any depth, is as it was; and when none of those files is
\* locked, a scan of the target afterwards counts zero files.
C34_TempCleanDeletesOnlyTempFiles ==
    (call.op = "clean" /\ call.item.cleanup_type.kind = "TempFiles")
        => \A temp \in {TempNamed(call.pre, call.item.cleanup_type.paths[1])} :
              /\ \A n \in Nodes \ temp : fs[n] = call.pre[n]
              /\ \A n \in temp : fs[n] \in {"file", "absent"}
              /\ (temp \cap locked = {}) => scan(fs, call.item).files = 0

\* clean() of a TempFiles target, a file without a transient name locked:
\* a nested file with a transient name is gone, its directory and a file
\* without a transient name are in place
C34_Witness ==
    /\ call.op = "clean" /\ call.item.cleanup_type.kind = "TempFiles"
    /\ locked # {}
    /\ \A temp \in {TempNamed(call.pre, call.item.cleanup_type.paths[1])} :
          /\ temp \cap locked = {}
          /\ \E n \in temp :
                /\ ParentOf(n) # TempDir
                /\ fs[n] = "absent" /\ fs[ParentOf(n)] = "dir"
          /\ \E n \in TreeFiles(call.pre, TempDir) \ temp : fs[n] = "file"


\* C35: in run_app, whatever keys arrive, the reset and clean keys included,
\* two toggle or navigation keys that were acted upon are at least 150 ms
\* apart; and the scan, clean, reset and quit keys are acted upon whatever the
\* time since the last key.
C35_ActedKeysACooldownApart ==
    /\ Len(call.trace) = 2
          => (call.trace[2].t - call.trace[1].t) * TickMs >= 150
    /\ last_key = "enter" => app.state \in {"Scanning", "ScanningDone"}
    /\ (last_key = "c" /\ pre_state = "ScanningDone")
          => \/ pc \in {"clean", "reset"}
             \/ pc = "draw" /\ app.state = "Initial"
    /\ last_key = "r" => app = App_new(cache_dir)
    /\ last_key = "q" => pc = "exit"

====
